---------------------------- MODULE Spec2Model ----------------------------
(***************************************************************************)
(* TicTacToe-Backend: the match, invitation and friend-request handlers    *)
(* of src/src/routes/{games,friends}.ts over the tables of                 *)
(* src/src/db/schema.ts, and the WebSocket registry of the realtime plugin *)
(* (src/src/plugins/auth.ts, lines 34-135).                                *)
(*                                                                         *)
(* Every `await db...` of a handler is one atomic step of the model: Node  *)
(* runs the code between two awaits without interruption, and the          *)
(* database executes one statement atomically.  A request occupies a slot  *)
(* of `reqs` from its first statement to its reply; the slot keeps the     *)
(* handler's local variables.  Spec runs the handlers one request at a     *)
(* time (one slot), SpecConc interleaves the requests of several slots.    *)
(***************************************************************************)
EXTENDS Integers, Sequences, FiniteSets, TLC

\* ------------------------------------------------------------------ bounds
\* Number of users in the "user" table (ids 1..NumUsers).
NumUsers == 3
\* Move positions are drawn from (0 - PosMargin)..(8 + PosMargin).
PosMargin == 1
\* Request slots that may be in flight at once under SpecConc.
MaxInFlight == 2
\* WebSocket connections opened over the run (sockets 1..MaxSockets).
MaxSockets == 2
\* notifyUser calls made over the run.
MaxNotify == 1
\* Message contents are up to MaxContent + ContentMargin characters long.
ContentMargin == 1
\* Rows inserted into "message" and into "chat" over a run of the chat
\* specifications.
MaxMessages == 3
MaxChats == 3
\* Rows inserted into "friend_request" and into "game_invitation" over a
\* run of the friends specification.
MaxRequests == 3
MaxInvitations == 3
\* The ids handed out to messages, friend requests and game invitations
\* together, where all three are created.
MaxFrameSerial == 4
\* The ids handed out to friend requests and game invitations together,
\* where both are created.
MaxSocialSerial == 3

Users == 1..NumUsers
Slots == 1..MaxInFlight
Sockets == 1..MaxSockets
\* SQL NULL of the nullable integer columns (serial ids start at 1).
NULL == 0

VARIABLES
    games,            \* table "game": sequence of rows, row i has id i
    chats,            \* table "chat": set of rows
    messages,         \* table "message": set of rows
    gameInvitations,  \* table "game_invitation": set of rows
    friendRequests,   \* table "friend_request": set of rows
    friendships,      \* table "friendship": set of rows
    serial,           \* last value handed out by each table's serial id
    reqs,             \* request slots: handler position, locals and reply
    userSockets,      \* realtime: Map<userId, Set>, a user to its Set object
    sets,             \* realtime: the members of each Set object
    ws,               \* realtime: each socket and its /ws handler
    out,              \* realtime: the payloads sent on each socket
    removals,         \* realtime: how often remove() deleted each socket
    calls             \* realtime: notifyUser calls made so far

dbVars == <<games, chats, messages, gameInvitations, friendRequests, friendships, serial>>
rtVars == <<userSockets, sets, ws, out, removals, calls>>
vars == <<games, chats, messages, gameInvitations, friendRequests, friendships, serial,
          reqs, userSockets, sets, ws, out, removals, calls>>

\* ------------------------------------------------------- games.ts: board
Cells == 0..8

INITIAL_BOARD == [i \in Cells |-> "-"]

LINES == << <<0, 1, 2>>, <<3, 4, 5>>, <<6, 7, 8>>,
            <<0, 3, 6>>, <<1, 4, 7>>, <<2, 5, 8>>,
            <<0, 4, 8>>, <<2, 4, 6>> >>

checkWinner(board, symbol) ==
    \E l \in 1..Len(LINES) :
        /\ board[LINES[l][1]] = symbol
        /\ board[LINES[l][2]] = symbol
        /\ board[LINES[l][3]] = symbol

\* Mutant of isDraw: a full board is never recognised.
isDrawNever(board) == FALSE

isDraw(board) == ~(\E i \in Cells : board[i] = "-")

\* --------------------------------------------------------- request slots
Username(u) == <<"user", u>>

NoRow == [id |-> 0]

Idle == [op |-> "none", pc |-> "idle", userId |-> 0, id |-> 0, position |-> 0,
         row |-> NoRow, newChat |-> 0, newGame |-> 0, content |-> <<>>, msg |-> 0,
         code |-> 0, error |-> "", errCode |-> "", notified |-> <<>>]

\* A slot can take a new request when no handler is running in it.
Free(r) == reqs[r].pc \in {"idle", "done"}

\* reply.status(code).send(...): the handler is over.
Reply(op, code, error, notified) ==
    [Idle EXCEPT !.op = op, !.pc = "done", !.code = code, !.error = error,
                 !.notified = notified]

\* The reply of a handler to the request of userId on the path parameter id.
ReplyTo(userId, id, op, code, error, notified) ==
    [Reply(op, code, error, notified) EXCEPT !.userId = userId, !.id = id]

\* A notifyUser(userId, event, data) call as the handler issues it.
Note(to, event, data) == [to |-> to, event |-> event, data |-> data]


\* ------------------------------------- realtime plugin: notifyUser
\* WebSocket.readyState.
CONNECTING == 0
OPEN == 1
CLOSING == 2
CLOSED == 3

\* JSON.stringify({ event, data })
Payload(event, data) == [event |-> event, data |-> data]

\* Mutant of SendTargets: the readyState test is missing.
SendTargetsAnyState(userId) ==
    IF userId \notin DOMAIN userSockets THEN {}
    ELSE sets[userSockets[userId]]

\* notifyUser, lines 56-68: the sockets ws.send is called on when no call
\* of it throws.
SendTargets(userId) ==
    IF userId \notin DOMAIN userSockets THEN {}
    ELSE IF sets[userSockets[userId]] = {} THEN {}
    ELSE {w \in sets[userSockets[userId]] : ws[w].readyState = OPEN}

\* A ws.send(payload) of the loop throws: line 64 is inside no try block, so
\* the exception ends the loop and leaves notifyUser.
SendRaises(userId) == \E w \in SendTargets(userId) : ws[w].faulty

\* Mutant of Receivers: the payload goes to every registered open socket.
ReceiversBroadcast(userId) ==
    {w \in Sockets : ws[w].stage = "registered" /\ ws[w].readyState = OPEN}

\* The sockets whose ws.send returned: `for (const ws of set)` visits the
\* Set in insertion order and stops at the first send that throws.
Receivers(userId) ==
    {w \in SendTargets(userId) :
        \A v \in SendTargets(userId) : ws[v].faulty => ws[w].order < ws[v].order}

\* What the sockets have been sent once notifyUser(note) has run.
OutAfter(o, note) ==
    [w \in Sockets |->
        IF w \in Receivers(note.to) THEN Append(o[w], Payload(note.event, note.data))
        ELSE o[w]]

\* notifyUser(userId, event, data), lines 55-70.
notifyUser(userId, event, data) ==
    /\ out' = OutAfter(out, [to |-> userId, event |-> event, data |-> data])
    /\ UNCHANGED <<userSockets, sets, ws, removals>>

\* A handler calls notifyUser.
NotifyCall(userId, event, data) ==
    /\ calls < MaxNotify
    /\ calls' = calls + 1
    /\ notifyUser(userId, event, data)
    /\ UNCHANGED <<dbVars, reqs>>

\* The notifyUser calls of a handler, in order: the first one that throws
\* takes the handler to its catch block.
RECURSIVE NotifyAll(_, _)
NotifyAll(o, notes) ==
    IF notes = <<>> THEN [out |-> o, raised |-> FALSE]
    ELSE IF SendRaises(Head(notes).to)
    THEN [out |-> OutAfter(o, Head(notes)), raised |-> TRUE]
    ELSE NotifyAll(OutAfter(o, Head(notes)), Tail(notes))

\* The end of a handler's try block: its notifyUser calls, then the reply
\* done; the reply failed of its catch block when a call throws.
HandlerNotify(r, done, failed) ==
    LET sent == NotifyAll(out, done.notified) IN
    /\ out' = sent.out
    /\ reqs' = [reqs EXCEPT ![r] = IF sent.raised THEN failed ELSE done]
    /\ UNCHANGED <<userSockets, sets, ws, removals, calls>>


\* ------------------------------------------------------------ the tables
\* Mutant of GameRow: the players are swapped.
GameRowSwapped(x, o, chatId) ==
    [playerXId |-> o, playerOId |-> x, chatId |-> chatId,
     boardState |-> INITIAL_BOARD, playerTurn |-> "X", status |-> "ACTIVE",
     winnerId |-> NULL]

\* The row of lines 212-220: `db.insert(games).values({...})`.
GameRow(x, o, chatId) ==
    [playerXId |-> x, playerOId |-> o, chatId |-> chatId,
     boardState |-> INITIAL_BOARD, playerTurn |-> "X", status |-> "ACTIVE",
     winnerId |-> NULL]

\* rows[0] of `select().from(games).where(eq(games.id, id))`.
GameExists(id) == id \in 1..Len(games)

\* ------------------------------------------- games.ts: POST /:id/move
\* The request body's `position`: any JSON value.  type is JavaScript's
\* typeof; a number is an integer v, the fraction v + 0.5, or NaN.
PositionInputs ==
    {[type |-> "number", kind |-> "int", v |-> n] : n \in (0 - PosMargin)..(8 + PosMargin)}
        \cup {[type |-> "number", kind |-> "frac", v |-> 3],
              [type |-> "number", kind |-> "NaN", v |-> 0],
              [type |-> "string", kind |-> "int", v |-> 4]}

\* typeof position !== 'number' || position < 0 || position > 8
BadPosition(p) ==
    \/ p.type # "number"
    \/ p.kind = "int" /\ (p.v < 0 \/ p.v > 8)
    \/ p.kind = "frac" /\ (p.v < 0 \/ p.v >= 8)

\* board[position] of the split board: undefined off the nine indices.
CellAt(board, p) ==
    IF p.kind = "int" /\ p.v \in Cells THEN board[p.v] ELSE "undefined"

\* mySymbol
MySymbol(game, userId) == IF game.playerXId = userId THEN "X" ELSE "O"

\* Mutant of NewBoard: every move writes an X.
NewBoardAlwaysX(game, userId, position) ==
    [game.boardState EXCEPT ![position] = "X"]

\* board[position] = mySymbol; newBoard = board.join('')
NewBoard(game, userId, position) ==
    [game.boardState EXCEPT ![position] = MySymbol(game, userId)]

\* Mutant of NewStatus: the draw test runs before the win test.
NewStatusDrawFirst(game, userId, position) ==
    IF isDraw(NewBoard(game, userId, position)) THEN "DRAW"
    ELSE IF checkWinner(NewBoard(game, userId, position), MySymbol(game, userId))
    THEN "FINISHED"
    ELSE game.status

NewStatus(game, userId, position) ==
    IF checkWinner(NewBoard(game, userId, position), MySymbol(game, userId))
    THEN "FINISHED"
    ELSE IF isDraw(NewBoard(game, userId, position)) THEN "DRAW"
    ELSE game.status

\* Mutant of NewTurn: the turn is never handed over.
NewTurnKept(game, userId, position) == game.playerTurn

NewTurn(game, userId, position) ==
    IF checkWinner(NewBoard(game, userId, position), MySymbol(game, userId))
    THEN game.playerTurn
    ELSE IF game.playerTurn = "X" THEN "O" ELSE "X"

\* Mutant of NewWinnerId: the win is credited to the opponent.
NewWinnerIdOpponent(game, userId, position) ==
    IF checkWinner(NewBoard(game, userId, position), MySymbol(game, userId))
    THEN IF game.playerXId = userId THEN game.playerOId ELSE game.playerXId
    ELSE NULL

NewWinnerId(game, userId, position) ==
    IF checkWinner(NewBoard(game, userId, position), MySymbol(game, userId))
    THEN userId
    ELSE NULL

\* Mutant of MoveError: the test of the target cell is missing.
MoveErrorNoCellTest(userId, id, p) ==
    IF id < 1 THEN <<400, "Id invalido">>
    ELSE IF BadPosition(p) THEN <<400, "position debe ser 0-8">>
    ELSE IF ~GameExists(id) THEN <<404, "Partida no encontrada">>
    ELSE IF games[id].status # "ACTIVE" THEN <<400, "Partida terminada">>
    ELSE IF games[id].playerXId # userId /\ games[id].playerOId # userId
         THEN <<403, "No participas en esta partida">>
    ELSE IF games[id].playerTurn # MySymbol(games[id], userId)
         THEN <<400, "No es tu turno">>
    ELSE <<200, "">>

\* The rejection the handler answers with, <<200, "">> when the move is
\* accepted (lines 435-465).
MoveError(userId, id, p) ==
    IF id < 1 THEN <<400, "Id invalido">>
    ELSE IF BadPosition(p) THEN <<400, "position debe ser 0-8">>
    ELSE IF ~GameExists(id) THEN <<404, "Partida no encontrada">>
    ELSE IF games[id].status # "ACTIVE" THEN <<400, "Partida terminada">>
    ELSE IF games[id].playerXId # userId /\ games[id].playerOId # userId
         THEN <<403, "No participas en esta partida">>
    ELSE IF games[id].playerTurn # MySymbol(games[id], userId)
         THEN <<400, "No es tu turno">>
    ELSE IF CellAt(games[id].boardState, p) # "-" THEN <<400, "Casilla ocupada">>
    ELSE <<200, "">>

\* Lines 431-467: the parameter checks, the SELECT of the game row and the
\* checks on it.  A rejected request is answered at once; an accepted one
\* goes on to its UPDATE with the row it read.
MoveSelect(r, userId, id, p) ==
    /\ Free(r)
    /\ LET e == MoveError(userId, id, p) IN
       IF e[1] # 200
       THEN reqs' = [reqs EXCEPT ![r] = Reply("move", e[1], e[2], <<>>)]
       ELSE reqs' = [reqs EXCEPT ![r] =
                [Idle EXCEPT !.op = "move", !.pc = "mvUpdate", !.userId = userId,
                             !.id = id, !.position = p.v, !.row = games[id]]]
    /\ UNCHANGED dbVars
    /\ UNCHANGED rtVars

\* The fields the UPDATE sets: winnerId only when it is not null.
MoveSet(row, game, userId, position) ==
    LET w == NewWinnerId(game, userId, position) IN
    [row EXCEPT !.boardState = NewBoard(game, userId, position),
                !.playerTurn = NewTurn(game, userId, position),
                !.status = NewStatus(game, userId, position),
                !.winnerId = IF w # NULL THEN w ELSE @]

\* Mutant of MoveUpdate: the UPDATE has no WHERE clause.
MoveUpdateAllRows(r) ==
    /\ reqs[r].pc = "mvUpdate"
    /\ LET q == reqs[r]
           terminal == NewStatus(q.row, q.userId, q.position) \in {"FINISHED", "DRAW"}
       IN
       /\ games' = [g \in 1..Len(games) |->
                      MoveSet(games[g], q.row, q.userId, q.position)]
       /\ reqs' = [reqs EXCEPT ![r].pc =
                IF terminal /\ q.row.chatId # NULL THEN "mvChatClear" ELSE "mvUsers"]
    /\ UNCHANGED <<chats, messages, gameInvitations, friendRequests, friendships, serial>>
    /\ UNCHANGED rtVars

\* Lines 481-493: the UPDATE, then the branch on newStatus.
MoveUpdate(r) ==
    /\ reqs[r].pc = "mvUpdate"
    /\ LET q == reqs[r]
           terminal == NewStatus(q.row, q.userId, q.position) \in {"FINISHED", "DRAW"}
       IN
       /\ games' = [games EXCEPT ![q.id] = MoveSet(@, q.row, q.userId, q.position)]
       /\ reqs' = [reqs EXCEPT ![r].pc =
                IF terminal /\ q.row.chatId # NULL THEN "mvChatClear" ELSE "mvUsers"]
    /\ UNCHANGED <<chats, messages, gameInvitations, friendRequests, friendships, serial>>
    /\ UNCHANGED rtVars

\* deleteGameChat, line 14: UPDATE game SET chat_id = NULL.
MoveChatClear(r) ==
    /\ reqs[r].pc = "mvChatClear"
    /\ games' = [games EXCEPT ![reqs[r].id].chatId = NULL]
    /\ reqs' = [reqs EXCEPT ![r].pc = "mvDelMessages"]
    /\ UNCHANGED <<chats, messages, gameInvitations, friendRequests, friendships, serial>>
    /\ UNCHANGED rtVars

\* deleteGameChat, line 15: DELETE FROM message WHERE chat_id = chatId.
MoveDelMessages(r) ==
    /\ reqs[r].pc = "mvDelMessages"
    /\ messages' = {m \in messages : m.chatId # reqs[r].row.chatId}
    /\ reqs' = [reqs EXCEPT ![r].pc = "mvDelChat"]
    /\ UNCHANGED <<games, chats, gameInvitations, friendRequests, friendships, serial>>
    /\ UNCHANGED rtVars

\* A row of message or game references chat row c (schema.ts 15, 41): the
\* DELETE of c is refused by the foreign key and the statement throws.
ChatReferenced(c) ==
    \/ \E m \in messages : m.chatId = c
    \/ \E g \in 1..Len(games) : games[g].chatId = c

\* deleteGameChat, line 16: DELETE FROM chat WHERE id = chatId.  When the
\* statement throws the handler's catch answers 500 (lines 515-518).
MoveDelChat(r) ==
    /\ reqs[r].pc = "mvDelChat"
    /\ IF ChatReferenced(reqs[r].row.chatId)
       THEN /\ reqs' = [reqs EXCEPT ![r] = Reply("move", 500, "Error al jugar", <<>>)]
            /\ UNCHANGED chats
       ELSE /\ chats' = {c \in chats : c.id # reqs[r].row.chatId}
            /\ reqs' = [reqs EXCEPT ![r].pc = "mvUsers"]
    /\ UNCHANGED <<games, messages, gameInvitations, friendRequests, friendships, serial>>
    /\ UNCHANGED rtVars

\* Lines 495-514: the SELECT of the opponent's name, notifyUser, the reply.
MoveNotify(r) ==
    /\ reqs[r].pc = "mvUsers"
    /\ LET q == reqs[r]
           opponentId == IF q.row.playerXId = q.userId THEN q.row.playerOId
                         ELSE q.row.playerXId
       IN HandlerNotify(r,
                [q EXCEPT !.pc = "done", !.code = 200, !.row = NoRow,
                          !.notified = <<Note(opponentId, "game_move",
                                [gameId |-> q.id,
                                 opponentUsername |-> Username(q.userId)])>>],
                ReplyTo(q.userId, q.id, "move", 500, "Error al jugar", <<>>))
    /\ UNCHANGED dbVars


\* ------------------------- games.ts: POST /invitations/:id/accept
\* Lines 184-205: the id check and the SELECT of the PENDING invitation
\* addressed to the caller.
AcceptSelect(r, userId, id) ==
    /\ Free(r)
    /\ LET invs == {i \in gameInvitations :
                      i.id = id /\ i.receiverId = userId /\ i.status = "PENDING"}
       IN
       IF id < 1
       THEN reqs' = [reqs EXCEPT ![r] = Reply("accept", 400, "Id invalido", <<>>)]
       ELSE IF invs = {}
       THEN reqs' = [reqs EXCEPT ![r] =
                Reply("accept", 404, "Invitacion no encontrada o ya usada", <<>>)]
       ELSE reqs' = [reqs EXCEPT ![r] =
                [Idle EXCEPT !.op = "accept", !.pc = "acInsertChat", !.userId = userId,
                             !.id = id, !.row = CHOOSE i \in invs : TRUE]]
    /\ UNCHANGED dbVars
    /\ UNCHANGED rtVars

\* Lines 207-210: INSERT INTO chat ... RETURNING id.
AcceptInsertChat(r) ==
    /\ reqs[r].pc = "acInsertChat"
    /\ LET newId == serial.chat + 1 IN
       /\ serial' = [serial EXCEPT !.chat = newId]
       /\ chats' = chats \cup {[id |-> newId, user1Id |-> reqs[r].row.senderId,
                                user2Id |-> reqs[r].row.receiverId]}
       /\ reqs' = [reqs EXCEPT ![r].pc = "acInsertGame", ![r].newChat = newId]
    /\ UNCHANGED <<games, messages, gameInvitations, friendRequests, friendships>>
    /\ UNCHANGED rtVars

\* Lines 212-220: INSERT INTO game ... RETURNING id.
AcceptInsertGame(r) ==
    /\ reqs[r].pc = "acInsertGame"
    /\ games' = Append(games, GameRow(reqs[r].row.senderId, reqs[r].row.receiverId,
                                      reqs[r].newChat))
    /\ reqs' = [reqs EXCEPT ![r].pc = "acDelete", ![r].newGame = Len(games) + 1]
    /\ UNCHANGED <<chats, messages, gameInvitations, friendRequests, friendships, serial>>
    /\ UNCHANGED rtVars

\* Mutant of AcceptDelete: the invitation is kept and marked ACCEPTED.
AcceptDeleteMarks(r) ==
    /\ reqs[r].pc = "acDelete"
    /\ gameInvitations' = {IF i.id = reqs[r].id THEN [i EXCEPT !.status = "ACCEPTED"] ELSE i :
                              i \in gameInvitations}
    /\ HandlerNotify(r, [reqs[r] EXCEPT !.pc = "done", !.code = 200],
                     Reply("accept", 500, "Error al aceptar invitacion", <<>>))
    /\ UNCHANGED <<games, chats, messages, friendRequests, friendships, serial>>

\* Lines 222-229: DELETE of the invitation, notifyUser, the reply.
AcceptDelete(r) ==
    /\ reqs[r].pc = "acDelete"
    /\ gameInvitations' = {i \in gameInvitations : i.id # reqs[r].id}
    /\ HandlerNotify(r,
          [reqs[r] EXCEPT !.pc = "done", !.code = 200,
                          !.notified =
                              <<Note(reqs[r].row.senderId, "game_invitation_accepted",
                                     [gameId |-> reqs[r].newGame,
                                      opponentUsername |-> Username(reqs[r].userId)])>>],
          ReplyTo(reqs[r].userId, reqs[r].id, "accept", 500,
                  "Error al aceptar invitacion", <<>>))
    /\ UNCHANGED <<games, chats, messages, friendRequests, friendships, serial>>

\* ---------------------------- friends.ts: POST /accept/:requestId
\* Mutant of PendingRequestTo: the receiver is not compared with the caller.
PendingRequestOfAnyone(userId, reqIdNum) ==
    {f \in friendRequests : f.id = reqIdNum /\ f.status = "PENDING"}

\* Lines 125-131 and 176-182: the rows of the SELECT of the PENDING request
\* with that id addressed to the caller.
PendingRequestTo(userId, reqIdNum) ==
    {f \in friendRequests :
        f.id = reqIdNum /\ f.receiverId = userId /\ f.status = "PENDING"}

\* Lines 119-136: the SELECT of the PENDING request addressed to the caller.
FriendAcceptSelect(r, userId, reqIdNum) ==
    /\ Free(r)
    /\ LET requests == PendingRequestTo(userId, reqIdNum) IN
       IF requests = {}
       THEN reqs' = [reqs EXCEPT ![r] =
                Reply("friendAccept", 404, "Solicitud no encontrada o invalida", <<>>)]
       ELSE reqs' = [reqs EXCEPT ![r] =
                [Idle EXCEPT !.op = "friendAccept", !.pc = "faDelete", !.userId = userId,
                             !.id = reqIdNum, !.row = CHOOSE f \in requests : TRUE]]
    /\ UNCHANGED dbVars
    /\ UNCHANGED rtVars

\* Line 139: DELETE of the request.
FriendAcceptDelete(r) ==
    /\ reqs[r].pc = "faDelete"
    /\ friendRequests' = {f \in friendRequests : f.id # reqs[r].id}
    /\ reqs' = [reqs EXCEPT ![r].pc = "faExisting"]
    /\ UNCHANGED <<games, chats, messages, gameInvitations, friendships, serial>>
    /\ UNCHANGED rtVars

\* The notifyUser call and the reply that end the accept (lines 157-162).
FriendAccepted(q) ==
    [q EXCEPT !.pc = "done", !.code = 200,
              !.notified = <<Note(q.row.senderId, "friend_accepted",
                                  [userId |-> q.userId, username |-> Username(q.userId)])>>]

\* The reply of the catch block (lines 164-167).
FriendAcceptFailed(q) ==
    ReplyTo(q.userId, q.id, "friendAccept", 500, "Error al aceptar solicitud", <<>>)

\* Lines 142-150: the SELECT of an existing friendship, in both directions.
\* When one exists the handler goes straight to notifyUser and the reply.
FriendAcceptExisting(r) ==
    /\ reqs[r].pc = "faExisting"
    /\ LET q == reqs[r]
           existingFriendship ==
               {f \in friendships :
                  \/ f.userId = q.userId /\ f.friendId = q.row.senderId
                  \/ f.userId = q.row.senderId /\ f.friendId = q.userId}
       IN IF existingFriendship = {}
          THEN /\ reqs' = [reqs EXCEPT ![r] = [q EXCEPT !.pc = "faInsert"]]
               /\ UNCHANGED rtVars
          ELSE HandlerNotify(r, FriendAccepted(q), FriendAcceptFailed(q))
    /\ UNCHANGED dbVars

\* Lines 151-162: INSERT INTO friendship, notifyUser, the reply.
FriendAcceptInsert(r) ==
    /\ reqs[r].pc = "faInsert"
    /\ LET newId == serial.friendship + 1 IN
       /\ serial' = [serial EXCEPT !.friendship = newId]
       /\ friendships' = friendships \cup
              {[id |-> newId, userId |-> reqs[r].userId,
                friendId |-> reqs[r].row.senderId]}
    /\ HandlerNotify(r, FriendAccepted(reqs[r]), FriendAcceptFailed(reqs[r]))
    /\ UNCHANGED <<games, chats, messages, gameInvitations, friendRequests>>

\* ------------------------------ games.ts: POST /:id/chat/messages
\* A string is the sequence of its runs: n >= 1 equal characters ch each,
\* neighbouring runs of different characters.  " " is white space.
StrLen(s) == LET RECURSIVE Sum(_)
                 Sum(t) == IF t = << >> THEN 0 ELSE Head(t).n + Sum(Tail(t))
             IN Sum(s)

\* String.prototype.trim
Trim(s) ==
    LET RECURSIVE TrimStart(_)
        TrimStart(t) == IF t = << >> THEN t
                        ELSE IF Head(t).ch = " " THEN TrimStart(Tail(t))
                        ELSE t
        RECURSIVE TrimEnd(_)
        TrimEnd(t) == IF t = << >> THEN t
                      ELSE IF t[Len(t)].ch = " " THEN TrimEnd(SubSeq(t, 1, Len(t) - 1))
                      ELSE t
    IN TrimEnd(TrimStart(s))

\* String.prototype.slice(0, k)
Slice(s, k) ==
    LET RECURSIVE Cut(_, _)
        Cut(t, left) ==
            IF t = << >> \/ left = 0 THEN << >>
            ELSE IF Head(t).n <= left
                 THEN <<Head(t)>> \o Cut(Tail(t), left - Head(t).n)
            ELSE <<[ch |-> Head(t).ch, n |-> left]>>
    IN Cut(s, k)

\* The length messages are cut to (line 357).
MaxContent == 2000

\* Mutant of StoredContent: the input is cut but not trimmed.
StoredContentUntrimmed(content) == Slice(content.s, MaxContent)

\* content.trim().slice(0, 2000), line 357.
StoredContent(content) == Slice(Trim(content.s), MaxContent)

\* !content || typeof content !== 'string' || !content.trim(), line 336.
EmptyContent(content) ==
    \/ content.type # "string"
    \/ content.s = << >>
    \/ Trim(content.s) = << >>

Run(ch, n) == [ch |-> ch, n |-> n]

\* The request body's `content`: absent, a number, or a string: empty,
\* blank, padded, and strings longer than MaxContent by up to ContentMargin.
ContentInputs ==
    {[type |-> "undefined", s |-> << >>], [type |-> "number", s |-> <<Run("5", 1)>>],
     [type |-> "string", s |-> << >>],
     [type |-> "string", s |-> <<Run(" ", 3)>>],
     [type |-> "string", s |-> <<Run(" ", 1), Run("a", 2), Run(" ", 1)>>]}
       \cup {[type |-> "string", s |-> <<Run("a", MaxContent + k)>>] : k \in 0..ContentMargin}
       \cup {[type |-> "string",
              s |-> <<Run(" ", 2), Run("a", MaxContent - 1), Run("b", 1 + k)>>] :
                 k \in 1..ContentMargin}

\* Mutant of PostError: the test of the match's status is missing.
PostErrorNoStatusTest(userId, gameId, content) ==
    IF gameId < 1 THEN <<400, "Id invalido">>
    ELSE IF EmptyContent(content) THEN <<400, "Mensaje vacio">>
    ELSE IF ~GameExists(gameId) THEN <<404, "Partida no encontrada">>
    ELSE IF games[gameId].playerXId # userId /\ games[gameId].playerOId # userId
         THEN <<403, "No participas en esta partida">>
    ELSE <<200, "">>

\* The rejection the handler answers with before it writes, <<200, "">>
\* when it goes on (lines 330-348).
PostError(userId, gameId, content) ==
    IF gameId < 1 THEN <<400, "Id invalido">>
    ELSE IF EmptyContent(content) THEN <<400, "Mensaje vacio">>
    ELSE IF ~GameExists(gameId) THEN <<404, "Partida no encontrada">>
    ELSE IF games[gameId].playerXId # userId /\ games[gameId].playerOId # userId
         THEN <<403, "No participas en esta partida">>
    ELSE IF games[gameId].status \in {"FINISHED", "DRAW"}
         THEN <<403, "El chat no esta disponible para partidas terminadas">>
    ELSE <<200, "">>

\* Lines 330-350: the parameter checks, the SELECT of the game row and the
\* checks on it; then the branch on game.chatId.
PostSelect(r, userId, gameId, content) ==
    /\ Free(r)
    /\ LET e == PostError(userId, gameId, content) IN
       IF e[1] # 200
       THEN reqs' = [reqs EXCEPT ![r] = Reply("post", e[1], e[2], <<>>)]
       ELSE reqs' = [reqs EXCEPT ![r] =
                [Idle EXCEPT !.op = "post", !.userId = userId, !.id = gameId,
                             !.content = content.s, !.row = games[gameId],
                             !.newChat = games[gameId].chatId,
                             !.pc = IF games[gameId].chatId = NULL THEN "pmInsertChat"
                                    ELSE "pmInsertMsg"]]
    /\ UNCHANGED dbVars
    /\ UNCHANGED rtVars

\* Lines 351-354: INSERT INTO chat ... RETURNING id.
PostInsertChat(r) ==
    /\ reqs[r].pc = "pmInsertChat"
    /\ LET newId == serial.chat + 1 IN
       /\ serial' = [serial EXCEPT !.chat = newId]
       /\ chats' = chats \cup {[id |-> newId, user1Id |-> reqs[r].row.playerXId,
                                user2Id |-> reqs[r].row.playerOId]}
       /\ reqs' = [reqs EXCEPT ![r].pc = "pmSetChat", ![r].newChat = newId]
    /\ UNCHANGED <<games, messages, gameInvitations, friendRequests, friendships>>
    /\ UNCHANGED rtVars

\* Line 356: UPDATE game SET chat_id = chatId.
PostSetChat(r) ==
    /\ reqs[r].pc = "pmSetChat"
    /\ games' = [games EXCEPT ![reqs[r].id].chatId = reqs[r].newChat]
    /\ reqs' = [reqs EXCEPT ![r].pc = "pmInsertMsg"]
    /\ UNCHANGED <<chats, messages, gameInvitations, friendRequests, friendships, serial>>
    /\ UNCHANGED rtVars

\* Lines 358-362: INSERT INTO message ... RETURNING.  The insert is refused
\* by the foreign key (schema.ts 41) when the chat row is gone; the catch
\* answers 500 (lines 381-384).
PostInsertMsg(r) ==
    /\ reqs[r].pc = "pmInsertMsg"
    /\ IF ~\E c \in chats : c.id = reqs[r].newChat
       THEN /\ reqs' = [reqs EXCEPT ![r] =
                       Reply("post", 500, "Error al enviar mensaje", <<>>)]
            /\ UNCHANGED <<messages, serial>>
       ELSE LET newId == serial.message + 1 IN
            /\ serial' = [serial EXCEPT !.message = newId]
            /\ messages' = messages \cup
                   {[id |-> newId, chatId |-> reqs[r].newChat,
                     senderId |-> reqs[r].userId,
                     content |-> StoredContent([type |-> "string", s |-> reqs[r].content])]}
            /\ reqs' = [reqs EXCEPT ![r].pc = "pmUsers", ![r].msg = newId]
    /\ UNCHANGED <<games, chats, gameInvitations, friendRequests, friendships>>
    /\ UNCHANGED rtVars

\* messagePayload with its isMine tag (lines 365-378).
MessagePayload(msg, content, userId, isMine) ==
    [id |-> msg, content |-> content, senderUsername |-> Username(userId),
     isMine |-> isMine]

\* Lines 363-380: the SELECT of the sender's name, the two notifyUser
\* calls, the reply.
PostNotify(r) ==
    /\ reqs[r].pc = "pmUsers"
    /\ LET q == reqs[r]
           recipientId == IF q.row.playerXId = q.userId THEN q.row.playerOId
                          ELSE q.row.playerXId
           stored == StoredContent([type |-> "string", s |-> q.content])
       IN HandlerNotify(r,
                [q EXCEPT !.pc = "done", !.code = 201, !.row = NoRow,
                          !.notified =
                             <<Note(recipientId, "chat_message",
                                    [gameId |-> q.id,
                                     message |-> MessagePayload(q.msg, stored, q.userId, FALSE)]),
                               Note(q.userId, "chat_message",
                                    [gameId |-> q.id,
                                     message |-> MessagePayload(q.msg, stored, q.userId, TRUE)])>>],
                ReplyTo(q.userId, q.id, "post", 500, "Error al enviar mensaje", <<>>))
    /\ UNCHANGED dbVars

\* ----------------------------------- games.ts: GET /:id/chat
\* The rejection the handler answers with, <<200, "">> when the chat is
\* read (lines 269-285).  On a terminal match the rejection follows
\* deleteGameChat.
ChatError(userId, gameId) ==
    IF gameId < 1 THEN <<400, "Id invalido">>
    ELSE IF ~GameExists(gameId) THEN <<404, "Partida no encontrada">>
    ELSE IF games[gameId].playerXId # userId /\ games[gameId].playerOId # userId
         THEN <<403, "No participas en esta partida">>
    ELSE IF games[gameId].status \in {"FINISHED", "DRAW"}
         THEN <<403, "El chat no esta disponible para partidas terminadas">>
    ELSE <<200, "">>

\* Mutant of ChatTeardown: a terminal match is rejected without teardown.
ChatTeardownNever(userId, gameId) == FALSE

\* Line 282 reaches the statements of deleteGameChat: the match is terminal
\* and its chatId is not null (line 13).
ChatTeardown(userId, gameId) ==
    /\ ChatError(userId, gameId)[1] = 403
    /\ games[gameId].playerXId = userId \/ games[gameId].playerOId = userId
    /\ games[gameId].chatId # NULL

\* Lines 269-291: the parameter check, the SELECT of the game row, the
\* checks on it and the branches on game.status and game.chatId.
ChatSelect(r, userId, gameId) ==
    /\ Free(r)
    /\ LET e == ChatError(userId, gameId) IN
       IF ChatTeardown(userId, gameId)
       THEN reqs' = [reqs EXCEPT ![r] =
                [Idle EXCEPT !.op = "chat", !.pc = "crChatClear", !.userId = userId,
                             !.id = gameId, !.row = games[gameId]]]
       ELSE IF e[1] # 200
       THEN reqs' = [reqs EXCEPT ![r] =
                [Reply("chat", e[1], e[2], <<>>)
                    EXCEPT !.userId = userId, !.id = gameId]]
       ELSE reqs' = [reqs EXCEPT ![r] =
                [Idle EXCEPT !.op = "chat", !.userId = userId, !.id = gameId,
                             !.row = games[gameId],
                             !.newChat = games[gameId].chatId,
                             !.pc = IF games[gameId].chatId = NULL THEN "crInsertChat"
                                    ELSE "crRead"]]
    /\ UNCHANGED dbVars
    /\ UNCHANGED rtVars

\* deleteGameChat, line 14: UPDATE game SET chat_id = NULL.
ChatClear(r) ==
    /\ reqs[r].pc = "crChatClear"
    /\ games' = [games EXCEPT ![reqs[r].id].chatId = NULL]
    /\ reqs' = [reqs EXCEPT ![r].pc = "crDelMessages"]
    /\ UNCHANGED <<chats, messages, gameInvitations, friendRequests, friendships, serial>>
    /\ UNCHANGED rtVars

\* deleteGameChat, line 15: DELETE FROM message WHERE chat_id = chatId.
ChatDelMessages(r) ==
    /\ reqs[r].pc = "crDelMessages"
    /\ messages' = {m \in messages : m.chatId # reqs[r].row.chatId}
    /\ reqs' = [reqs EXCEPT ![r].pc = "crDelChat"]
    /\ UNCHANGED <<games, chats, gameInvitations, friendRequests, friendships, serial>>
    /\ UNCHANGED rtVars

\* deleteGameChat, line 16: DELETE FROM chat WHERE id = chatId, then the
\* rejection of line 283; the catch's 500 (lines 322-325) when the foreign
\* key refuses the DELETE.
ChatDelChat(r) ==
    /\ reqs[r].pc = "crDelChat"
    /\ IF ChatReferenced(reqs[r].row.chatId)
       THEN /\ reqs' = [reqs EXCEPT ![r] =
                       [Reply("chat", 500, "Error al cargar chat", <<>>)
                           EXCEPT !.userId = reqs[r].userId, !.id = reqs[r].id]]
            /\ UNCHANGED chats
       ELSE /\ chats' = {c \in chats : c.id # reqs[r].row.chatId}
            /\ reqs' = [reqs EXCEPT ![r] =
                       [Reply("chat", 403,
                              "El chat no esta disponible para partidas terminadas", <<>>)
                           EXCEPT !.userId = reqs[r].userId, !.id = reqs[r].id,
                                  !.newChat = reqs[r].row.chatId]]
    /\ UNCHANGED <<games, messages, gameInvitations, friendRequests, friendships, serial>>
    /\ UNCHANGED rtVars

\* Lines 287-290: INSERT INTO chat ... RETURNING id.
ChatInsertChat(r) ==
    /\ reqs[r].pc = "crInsertChat"
    /\ LET newId == serial.chat + 1 IN
       /\ serial' = [serial EXCEPT !.chat = newId]
       /\ chats' = chats \cup {[id |-> newId, user1Id |-> reqs[r].row.playerXId,
                                user2Id |-> reqs[r].row.playerOId]}
       /\ reqs' = [reqs EXCEPT ![r].pc = "crSetChat", ![r].newChat = newId]
    /\ UNCHANGED <<games, messages, gameInvitations, friendRequests, friendships>>
    /\ UNCHANGED rtVars

\* Line 292: UPDATE game SET chat_id = chatId.
ChatSetChat(r) ==
    /\ reqs[r].pc = "crSetChat"
    /\ games' = [games EXCEPT ![reqs[r].id].chatId = reqs[r].newChat]
    /\ reqs' = [reqs EXCEPT ![r].pc = "crRead"]
    /\ UNCHANGED <<chats, messages, gameInvitations, friendRequests, friendships, serial>>
    /\ UNCHANGED rtVars

\* Lines 294-321: the SELECT of the opponent's name, the SELECT of the
\* chat's messages and the reply with chatId; msg is the number of
\* messages in the list sent.
ChatRead(r) ==
    /\ reqs[r].pc = "crRead"
    /\ reqs' = [reqs EXCEPT ![r] =
                [Idle EXCEPT !.op = "chat", !.pc = "done", !.code = 200,
                             !.newChat = reqs[r].newChat,
                             !.msg = Cardinality({m \in messages :
                                                    m.chatId = reqs[r].newChat})]]
    /\ UNCHANGED dbVars
    /\ UNCHANGED rtVars

\* --------------------------------- friends.ts: POST /request
\* The targetUsername of a request: the name of a user, 0 for a name no
\* user has.  rows[0] of the SELECT by username.
TargetInputs == 0..NumUsers

\* The friendship rows between two users, in either direction.
\* Mutant of FriendRows: only the rows stored in the order asked for.
FriendRowsOneWay(a, b) ==
    {f \in friendships : f.userId = a /\ f.friendId = b}

FriendRows(a, b) ==
    {f \in friendships : \/ f.userId = a /\ f.friendId = b
                         \/ f.userId = b /\ f.friendId = a}

\* Lines 24-50: the SELECT of the target user and of an existing
\* friendship in either direction.
\* Mutant of FriendRequestSelect: the test of a request to oneself is
\* missing.
FriendRequestSelectNoSelfTest(r, senderId, target) ==
    /\ Free(r)
    /\ reqs' = [reqs EXCEPT ![r] =
          IF target \notin Users
          THEN Reply("friendRequest", 404, "Usuario no encontrado", <<>>)
          ELSE IF FriendRows(senderId, target) # {}
          THEN Reply("friendRequest", 400, "Ya sois amigos", <<>>)
          ELSE [Idle EXCEPT !.op = "friendRequest", !.pc = "frExisting",
                            !.userId = senderId, !.row = [id |-> target]]]
    /\ UNCHANGED dbVars
    /\ UNCHANGED rtVars

FriendRequestSelect(r, senderId, target) ==
    /\ Free(r)
    /\ reqs' = [reqs EXCEPT ![r] =
          IF target \notin Users
          THEN Reply("friendRequest", 404, "Usuario no encontrado", <<>>)
          ELSE IF target = senderId
          THEN Reply("friendRequest", 400, "No puedes enviarte solicitud a ti mismo", <<>>)
          ELSE IF FriendRows(senderId, target) # {}
          THEN Reply("friendRequest", 400, "Ya sois amigos", <<>>)
          ELSE [Idle EXCEPT !.op = "friendRequest", !.pc = "frExisting",
                            !.userId = senderId, !.row = [id |-> target]]]
    /\ UNCHANGED dbVars
    /\ UNCHANGED rtVars

\* Mutant of PendingBetween: only the requests the caller has sent count.
PendingOneWay(a, b) ==
    {q \in friendRequests :
        q.senderId = a /\ q.receiverId = b /\ q.status = "PENDING"}

\* Lines 53-62: the PENDING requests between two users, in either direction.
PendingBetween(a, b) ==
    {q \in friendRequests :
        /\ \/ q.senderId = a /\ q.receiverId = b
           \/ q.senderId = b /\ q.receiverId = a
        /\ q.status = "PENDING"}

\* Lines 53-66: the SELECT of an existing request between the two users.
FriendRequestExisting(r) ==
    /\ reqs[r].pc = "frExisting"
    /\ reqs' = [reqs EXCEPT ![r] =
          IF PendingBetween(reqs[r].userId, reqs[r].row.id) # {}
          THEN Reply("friendRequest", 400, "Ya hay una solicitud pendiente", <<>>)
          ELSE [@ EXCEPT !.pc = "frInsert"]]
    /\ UNCHANGED dbVars
    /\ UNCHANGED rtVars

\* Lines 69-80: INSERT INTO friend_request, notifyUser, the reply.
FriendRequestInsert(r) ==
    /\ reqs[r].pc = "frInsert"
    /\ LET newId == serial.friendRequest + 1 IN
       /\ serial' = [serial EXCEPT !.friendRequest = newId]
       /\ friendRequests' = friendRequests \cup
              {[id |-> newId, senderId |-> reqs[r].userId,
                receiverId |-> reqs[r].row.id, status |-> "PENDING"]}
    /\ HandlerNotify(r,
          [reqs[r] EXCEPT !.pc = "done", !.code = 200,
                          !.notified = <<Note(reqs[r].row.id, "friend_request",
                                              [senderId |-> reqs[r].userId,
                                               senderName |-> Username(reqs[r].userId)])>>],
          ReplyTo(reqs[r].userId, 0, "friendRequest", 500,
                  "Error al enviar solicitud", <<>>))
    /\ UNCHANGED <<games, chats, messages, gameInvitations, friendships>>

\* ---------------------------- friends.ts: POST /reject/:requestId
\* Lines 173-188: the SELECT of the PENDING request addressed to the caller.
FriendRejectSelect(r, userId, reqIdNum) ==
    /\ Free(r)
    /\ LET requests == PendingRequestTo(userId, reqIdNum) IN
       IF requests = {}
       THEN reqs' = [reqs EXCEPT ![r] =
                Reply("friendReject", 404, "Solicitud no encontrada", <<>>)]
       ELSE reqs' = [reqs EXCEPT ![r] =
                [Idle EXCEPT !.op = "friendReject", !.pc = "fjDelete", !.userId = userId,
                             !.id = reqIdNum, !.row = CHOOSE f \in requests : TRUE]]
    /\ UNCHANGED dbVars
    /\ UNCHANGED rtVars

\* Lines 190-198: DELETE of the request, notifyUser, the reply.
FriendRejectDelete(r) ==
    /\ reqs[r].pc = "fjDelete"
    /\ friendRequests' = {f \in friendRequests : f.id # reqs[r].id}
    /\ HandlerNotify(r,
          [reqs[r] EXCEPT !.pc = "done", !.code = 200,
                          !.notified = <<Note(reqs[r].row.senderId, "friend_rejected",
                                              [userId |-> reqs[r].userId,
                                               username |-> Username(reqs[r].userId)])>>],
          ReplyTo(reqs[r].userId, reqs[r].id, "friendReject", 500,
                  "Error al rechazar solicitud", <<>>))
    /\ UNCHANGED <<games, chats, messages, gameInvitations, friendships, serial>>

\* ------------------------------ friends.ts: DELETE /:friendId
\* Lines 246-287: the parameter checks, the one DELETE ... RETURNING of the
\* rows between the two users, notifyUser, the reply.
FriendRemove(r, userId, friendId) ==
    /\ Free(r)
    /\ IF friendId < 1
       THEN /\ reqs' = [reqs EXCEPT ![r] =
                          Reply("friendRemove", 400, "friendId invalido", <<>>)]
            /\ UNCHANGED <<friendships, rtVars>>
       ELSE IF userId = friendId
       THEN /\ reqs' = [reqs EXCEPT ![r] =
                          Reply("friendRemove", 400, "No puedes eliminarte a ti mismo", <<>>)]
            /\ UNCHANGED <<friendships, rtVars>>
       ELSE IF FriendRows(userId, friendId) = {}
       THEN /\ reqs' = [reqs EXCEPT ![r] = Reply("friendRemove", 404, "", <<>>)]
            /\ UNCHANGED <<friendships, rtVars>>
       ELSE /\ friendships' = friendships \ FriendRows(userId, friendId)
            /\ HandlerNotify(r,
                  Reply("friendRemove", 200, "",
                        <<Note(friendId, "friend_removed", [userId |-> userId])>>),
                  Reply("friendRemove", 500, "Error interno", <<>>))
    /\ UNCHANGED <<games, chats, messages, gameInvitations, friendRequests, serial>>

\* --------------------------------------- games.ts: POST /invite
\* The target of a request whose targetUsername is missing or blank.
BlankTarget == 0 - 1

\* Lines 115-147: the test of targetUsername, the SELECT of the target user
\* and of the friendship between the two.  target is the user whose name
\* targetUsername.trim() is, 0 when no user has that name, BlankTarget
\* when targetUsername is missing or trims to "".
InviteSelect(r, senderId, target) ==
    /\ Free(r)
    /\ reqs' = [reqs EXCEPT ![r] =
          IF target = BlankTarget
          THEN Reply("invite", 400, "Falta targetUsername", <<>>)
          ELSE IF target \notin Users
          THEN Reply("invite", 404, "Usuario no encontrado", <<>>)
          ELSE IF target = senderId
          THEN Reply("invite", 400, "No puedes invitarte a ti mismo", <<>>)
          ELSE IF FriendRows(senderId, target) = {}
          THEN [Reply("invite", 403, "Solo puedes invitar a jugar a tus amigos", <<>>)
                   EXCEPT !.errCode = "NOT_FRIEND"]
          ELSE [Idle EXCEPT !.op = "invite", !.pc = "ivExisting",
                            !.userId = senderId, !.row = [id |-> target]]]
    /\ UNCHANGED dbVars
    /\ UNCHANGED rtVars

\* Lines 149-161: the SELECT of a PENDING invitation from the sender to
\* the target.
InviteExisting(r) ==
    /\ reqs[r].pc = "ivExisting"
    /\ LET existing == {i \in gameInvitations :
                          /\ i.senderId = reqs[r].userId
                          /\ i.receiverId = reqs[r].row.id
                          /\ i.status = "PENDING"}
       IN reqs' = [reqs EXCEPT ![r] =
             IF existing # {}
             THEN Reply("invite", 400, "Ya hay una invitacion pendiente", <<>>)
             ELSE [@ EXCEPT !.pc = "ivInsert"]]
    /\ UNCHANGED dbVars
    /\ UNCHANGED rtVars

\* Lines 163-174: INSERT INTO game_invitation, notifyUser, the reply.
InviteInsert(r) ==
    /\ reqs[r].pc = "ivInsert"
    /\ LET newId == serial.gameInvitation + 1 IN
       /\ serial' = [serial EXCEPT !.gameInvitation = newId]
       /\ gameInvitations' = gameInvitations \cup
              {[id |-> newId, senderId |-> reqs[r].userId,
                receiverId |-> reqs[r].row.id, status |-> "PENDING"]}
    /\ HandlerNotify(r,
          [reqs[r] EXCEPT !.pc = "done", !.code = 200,
                          !.notified = <<Note(reqs[r].row.id, "game_invitation",
                                              [senderId |-> reqs[r].userId,
                                               senderName |-> Username(reqs[r].userId)])>>],
          ReplyTo(reqs[r].userId, 0, "invite", 500, "Error al enviar invitacion", <<>>))
    /\ UNCHANGED <<games, chats, messages, friendRequests, friendships>>

\* ------------------------- games.ts: POST /invitations/:id/reject
\* Lines 238-260: the id check, the one DELETE ... RETURNING of the PENDING
\* invitation addressed to the caller, the reply.
InviteReject(r, userId, id) ==
    /\ Free(r)
    /\ LET result == {i \in gameInvitations :
                        i.id = id /\ i.receiverId = userId /\ i.status = "PENDING"}
       IN
       /\ gameInvitations' = gameInvitations \ result
       /\ reqs' = [reqs EXCEPT ![r] =
             IF id < 1 THEN Reply("inviteReject", 400, "Id invalido", <<>>)
             ELSE IF result = {} THEN Reply("inviteReject", 404, "Invitacion no encontrada", <<>>)
             ELSE [ReplyTo(userId, id, "inviteReject", 200, "", <<>>)
                      EXCEPT !.row = CHOOSE i \in result : TRUE]]
    /\ UNCHANGED <<games, chats, messages, friendRequests, friendships, serial>>
    /\ UNCHANGED rtVars

\* ------------------------------------------------ games.ts: GET /:id
\* Lines 391-402: the rejections of the handler, in the order it tests them.
GameError(userId, id) ==
    IF id < 1 THEN <<400, "Id invalido">>
    ELSE IF ~GameExists(id) THEN <<404, "Partida no encontrada">>
    ELSE IF games[id].playerXId # userId /\ games[id].playerOId # userId
         THEN <<403, "No participas en esta partida">>
    ELSE <<200, "">>

\* Lines 407-421: the game object of the reply.
GameView(id, game, userId) ==
    [id |-> id, boardState |-> game.boardState, playerTurn |-> game.playerTurn,
     status |-> game.status, winnerId |-> game.winnerId,
     mySymbol |-> MySymbol(game, userId),
     opponentUsername |-> IF game.playerXId = userId THEN Username(game.playerOId)
                          ELSE Username(game.playerXId),
     youWon |-> game.winnerId # NULL /\ game.winnerId = userId]

\* Lines 389-402: the checks and the SELECT of the match.
GameSelect(r, userId, id) ==
    /\ Free(r)
    /\ LET e == GameError(userId, id) IN
       IF e[1] # 200
       THEN reqs' = [reqs EXCEPT ![r] = Reply("game", e[1], e[2], <<>>)]
       ELSE reqs' = [reqs EXCEPT ![r] =
                [Idle EXCEPT !.op = "game", !.pc = "ggUsers", !.userId = userId,
                             !.id = id, !.row = games[id]]]
    /\ UNCHANGED dbVars
    /\ UNCHANGED rtVars

\* Lines 403-421: the two SELECTs of the usernames and the reply.
GameReply(r) ==
    /\ reqs[r].pc = "ggUsers"
    /\ reqs' = [reqs EXCEPT ![r] =
                [Reply("game", 200, "", <<>>) EXCEPT
                    !.row = GameView(reqs[r].id, reqs[r].row, reqs[r].userId)]]
    /\ UNCHANGED dbVars
    /\ UNCHANGED rtVars

\* ------------------------------------------- realtime plugin: /ws
\* No token.
NoToken == [id |-> 0, kind |-> "none", origin |-> "none"]

\* The socket as the /ws handler has not seen it yet.
NoSocket == [stage |-> "none", readyState |-> CONNECTING, token |-> NoToken,
             userId |-> 0, set |-> 0, errored |-> FALSE, order |-> 0, faulty |-> FALSE]

\* The users that connect and are notified here.
RtUsers == {1, 2}

\* The ?token= of a connection request: absent, or a string that
\* jwt.verify refuses (bad signature, expired), or one it decodes, to a
\* payload without id or to the payload { id, ... } of a user.
TokenInputs ==
    {[id |-> 0, kind |-> k, origin |-> "other"] : k \in {"missing", "invalid", "noid"}}
        \cup {[id |-> 0, kind |-> "expired", origin |-> "ws-token"]}
        \cup {[id |-> u, kind |-> "valid", origin |-> "ws-token"] : u \in RtUsers}

\* The token GET /ws-token signs for user u (lines 88-93): expiresIn '2m'.
WsToken(u) == [id |-> u, kind |-> "valid", origin |-> "ws-token"]

\* The token POST /login and POST /register sign for user u and set as the
\* session cookie: same secret, same payload, no expiresIn.
SessionToken(u) == [id |-> u, kind |-> "valid", origin |-> "session"]

\* The tokens a client can present: those of TokenInputs and the session
\* tokens of the users.
HandshakeInputs == TokenInputs \cup {SessionToken(u) : u \in RtUsers}

\* The tokens GET /ws-token has signed for the users and that are presented
\* in time.
HandshakeTokens == {WsToken(u) : u \in RtUsers}

\* Mutant of TokenExpires: the connection is dropped from its Set when the
\* token it presented expires.
TokenExpiresDrops(w) ==
    /\ ws[w].token.kind = "valid"
    /\ ws[w].token.origin = "ws-token"
    /\ ws' = [ws EXCEPT ![w].token.kind = "expired"]
    /\ IF ws[w].stage = "registered"
       THEN sets' = [sets EXCEPT ![ws[w].set] = @ \ {w}]
       ELSE UNCHANGED sets
    /\ UNCHANGED <<userSockets, out, removals, calls, dbVars, reqs>>

\* Two minutes have passed since GET /ws-token signed the token socket w
\* presented: jwt.verify refuses it from now on.  A session token carries
\* no exp claim.
TokenExpires(w) ==
    /\ ws[w].token.kind = "valid"
    /\ ws[w].token.origin = "ws-token"
    /\ ws' = [ws EXCEPT ![w].token.kind = "expired"]
    /\ UNCHANGED <<userSockets, sets, out, removals, calls, dbVars, reqs>>

\* authenticate and GET /me: 401 without a token or when jwt.verify throws,
\* else request.user is the decoded payload and the reply is 200.
Me(r, token) ==
    /\ Free(r)
    /\ reqs' = [reqs EXCEPT ![r] =
          IF token.kind = "missing"
          THEN Reply("me", 401, "No token in cookie or Authorization header", <<>>)
          ELSE IF token.kind \in {"invalid", "expired"}
          THEN Reply("me", 401, "Unauthorized", <<>>)
          ELSE ReplyTo(token.id, 0, "me", 200, "", <<>>)]
    /\ UNCHANGED dbVars
    /\ UNCHANGED rtVars

\* Mutant of ServerClosed: socket.close() is not called.
ServerClosedNot(w) == ws[w].readyState

\* socket.close(): starts the closing handshake of a socket that is open.
ServerClosed(w) == IF ws[w].readyState = OPEN THEN CLOSING ELSE ws[w].readyState

\* Lines 97-105: the handler up to `await app.jwt.verify(token)`.
WsConnect(w, token) ==
    /\ ws[w].stage = "none"
    /\ ws' = [ws EXCEPT ![w] =
                IF token.kind = "missing"
                THEN [@ EXCEPT !.stage = "refused", !.readyState = CLOSING]
                ELSE [@ EXCEPT !.stage = "verifying", !.readyState = OPEN,
                               !.token = token]]
    /\ UNCHANGED <<userSockets, sets, out, removals, calls, dbVars, reqs>>

\* The place in the iteration order of the member of a Set added last: a
\* Set is iterated in insertion order.
LastOrder(set) ==
    IF sets[set] = {} THEN 0
    ELSE CHOOSE n \in {ws[v].order : v \in sets[set]} :
            \A v \in sets[set] : ws[v].order <= n

\* Lines 107-130: jwt.verify has settled.  A refused token closes the
\* socket; a decoded payload with an id registers the socket in the user's
\* Set (a new Set, named after the socket, when the map has none) and
\* attaches remove to 'close' and 'error'.
WsVerified(w) ==
    /\ ws[w].stage = "verifying"
    /\ IF ws[w].token.kind # "valid"
       THEN /\ ws' = [ws EXCEPT ![w].stage = "refused",
                                ![w].readyState = ServerClosed(w),
                                ![w].token = NoSocket.token]
            /\ UNCHANGED <<userSockets, sets>>
       ELSE LET userId == ws[w].token.id
                set == IF userId \in DOMAIN userSockets THEN userSockets[userId] ELSE w
            IN
            /\ userSockets' = [u \in DOMAIN userSockets \cup {userId} |-> 
                                 IF u = userId THEN set ELSE userSockets[u]]
            /\ sets' = [sets EXCEPT ![set] = @ \cup {w}]
            /\ ws' = [ws EXCEPT ![w].stage = "registered", ![w].userId = userId,
                                ![w].set = set,
                                ![w].order = LastOrder(set) + 1]
    /\ UNCHANGED <<out, removals, calls, dbVars, reqs>>

\* Mutant of remove: the emptied Set stays in the map.
removeKeepsKey(w) ==
    IF w \notin sets[ws[w].set]
    THEN UNCHANGED <<userSockets, sets, removals>>
    ELSE /\ sets' = [sets EXCEPT ![ws[w].set] = @ \ {w}]
         /\ removals' = [removals EXCEPT ![w] = @ + 1]
         /\ UNCHANGED userSockets

\* remove, lines 120-125, with the set and userId its closure captured.
remove(w) ==
    IF w \notin sets[ws[w].set]
    THEN UNCHANGED <<userSockets, sets, removals>>
    ELSE /\ sets' = [sets EXCEPT ![ws[w].set] = @ \ {w}]
         /\ removals' = [removals EXCEPT ![w] = @ + 1]
         /\ IF sets[ws[w].set] = {w}
            THEN userSockets' = [u \in DOMAIN userSockets \ {ws[w].userId} |->
                                   userSockets[u]]
            ELSE UNCHANGED userSockets

\* The transport under a registered socket breaks while readyState is still
\* OPEN: from now on ws.send on it throws.
WsSendFails(w) ==
    /\ ws[w].stage = "registered"
    /\ ws[w].readyState = OPEN
    /\ ~ws[w].faulty
    /\ ws' = [ws EXCEPT ![w].faulty = TRUE]
    /\ UNCHANGED <<userSockets, sets, out, removals, calls, dbVars, reqs>>

\* An event of the socket: the listeners of lines 126-127 run remove when
\* they are attached; an event emitted before that reaches no listener.
Emit(w) ==
    IF ws[w].stage = "registered"
    THEN remove(w)
    ELSE UNCHANGED <<userSockets, sets, removals>>

\* The peer starts closing: readyState CLOSING, no event yet.
WsClosing(w) ==
    /\ ws[w].readyState = OPEN
    /\ ws' = [ws EXCEPT ![w].readyState = CLOSING]
    /\ UNCHANGED <<userSockets, sets, out, removals, calls, dbVars, reqs>>

\* The socket fails: 'error' is emitted, the socket is closing.
WsError(w) ==
    /\ ws[w].readyState \in {OPEN, CLOSING}
    /\ ~ws[w].errored
    /\ ws' = [ws EXCEPT ![w].readyState = CLOSING, ![w].errored = TRUE]
    /\ Emit(w)
    /\ UNCHANGED <<out, calls, dbVars, reqs>>

\* The connection is gone: readyState CLOSED and 'close' is emitted.
WsClose(w) ==
    /\ ws[w].readyState \in {OPEN, CLOSING}
    /\ ws' = [ws EXCEPT ![w].readyState = CLOSED]
    /\ Emit(w)
    /\ UNCHANGED <<out, calls, dbVars, reqs>>

\* No socket has connected, nothing was sent.
RtInit ==
    /\ userSockets = << >>
    /\ sets = [w \in Sockets |-> {}]
    /\ ws = [w \in Sockets |-> NoSocket]
    /\ out = [w \in Sockets |-> << >>]
    /\ removals = [w \in Sockets |-> 0]
    /\ calls = 0

\* ------------------------------------------------------ specifications
\* The database when the server starts serving: users 1 and 2 are friends,
\* user 1 has invited user 2 to a game, and user 3 has sent a
\* friend request to user 1.  No request is in flight.
Init ==
    /\ games = <<>>
    /\ chats = {}
    /\ messages = {}
    /\ gameInvitations = {[id |-> 1, senderId |-> 1, receiverId |-> 2,
                           status |-> "PENDING"]}
    /\ friendRequests = {[id |-> 1, senderId |-> 3, receiverId |-> 1,
                          status |-> "PENDING"]}
    /\ friendships = {[id |-> 1, userId |-> 1, friendId |-> 2]}
    /\ serial = [chat |-> 0, message |-> 0, gameInvitation |-> 1,
                 friendRequest |-> 1, friendship |-> 1]
    /\ reqs = [r \in Slots |-> Idle]
    /\ RtInit

\* The :id path parameters tried: 0 is refused as invalid; 1 is not found
\* before the row exists and after it was deleted.
IdInputs == 0..1

\* The steps of the handlers running in slot r.
Steps(r) ==
    \/ MoveUpdate(r)
    \/ MoveChatClear(r)
    \/ MoveDelMessages(r)
    \/ MoveDelChat(r)
    \/ MoveNotify(r)
    \/ AcceptInsertChat(r)
    \/ AcceptInsertGame(r)
    \/ AcceptDelete(r)

\* One request at a time: every handler runs to its reply before the next
\* request starts.
Next ==
    \/ \E userId \in Users, id \in IdInputs, p \in PositionInputs :
          MoveSelect(1, userId, id, p)
    \/ \E userId \in Users, id \in IdInputs : AcceptSelect(1, userId, id)
    \/ Steps(1)

Spec == Init /\ [][Next]_vars

\* ---------------------------------------------- concurrent requests
\* Requests of several clients interleaved at their awaits: two accepts of
\* the same game invitation or friend request.
NextAccept ==
    \E r \in Slots :
        \/ \E userId \in Users, id \in IdInputs : AcceptSelect(r, userId, id)
        \/ \E userId \in Users, id \in IdInputs : FriendAcceptSelect(r, userId, id)
        \/ AcceptInsertChat(r)
        \/ AcceptInsertGame(r)
        \/ AcceptDelete(r)
        \/ FriendAcceptDelete(r)
        \/ FriendAcceptExisting(r)
        \/ FriendAcceptInsert(r)

SpecAccept == Init /\ [][NextAccept]_vars

\* The database once user 2 has accepted the invitation of Init: match 1
\* between playerX 1 and playerO 2, with its chat.
InitPlaying ==
    /\ games = <<GameRow(1, 2, 1)>>
    /\ chats = {[id |-> 1, user1Id |-> 1, user2Id |-> 2]}
    /\ messages = {}
    /\ gameInvitations = {}
    /\ friendRequests = {[id |-> 1, senderId |-> 3, receiverId |-> 1,
                          status |-> "PENDING"]}
    /\ friendships = {[id |-> 1, userId |-> 1, friendId |-> 2]}
    /\ serial = [chat |-> 1, message |-> 0, gameInvitation |-> 1,
                 friendRequest |-> 1, friendship |-> 1]
    /\ reqs = [r \in Slots |-> Idle]
    /\ RtInit

\* The cells the concurrent move requests play on: the top row and two
\* more, enough for X to complete a line.
ConcCells == 0..4

\* The users that send the concurrent move requests: the two players.
ConcUsers == {1, 2}

\* Move requests of several clients on match 1, interleaved at their awaits.
NextConc ==
    \E r \in Slots :
        \/ \E userId \in ConcUsers, n \in ConcCells :
              MoveSelect(r, userId, 1, [type |-> "number", kind |-> "int", v |-> n])
        \/ MoveUpdate(r)
        \/ MoveChatClear(r)
        \/ MoveDelMessages(r)
        \/ MoveDelChat(r)
        \/ MoveNotify(r)

SpecConc == InitPlaying /\ [][NextConc]_vars


\* A move request is a legal one: the handler finds nothing to refuse.
LegalMove(r, userId, n) ==
    /\ MoveError(userId, 1, [type |-> "number", kind |-> "int", v |-> n])[1] = 200
    /\ MoveSelect(r, userId, 1, [type |-> "number", kind |-> "int", v |-> n])

\* The steps of the move handler in slot r after its SELECT.
PlaySteps(r) ==
    \/ MoveUpdate(r)
    \/ MoveChatClear(r)
    \/ MoveDelMessages(r)
    \/ MoveDelChat(r)
    \/ MoveNotify(r)

\* Match 1, newly created: its two players send move requests on every
\* cell, in and out of turn, one request at a time.
NextPlay ==
    \/ \E userId \in ConcUsers, n \in Cells :
          MoveSelect(1, userId, 1, [type |-> "number", kind |-> "int", v |-> n])
    \/ PlaySteps(1)

SpecPlay == InitPlaying /\ [][NextPlay]_vars

\* The same, where a handler that can take its next step takes it and the
\* player on turn, whatever else is sent, goes on sending legal moves.
FairSpecPlay ==
    /\ SpecPlay
    /\ WF_vars(PlaySteps(1))
    /\ WF_vars(\E userId \in ConcUsers, n \in Cells : LegalMove(1, userId, n))

\* ------------------------------------------------------------ realtime
\* The event notifyUser is called with here.
EventInputs == {"game_move"}

\* Sockets connect, fail and close while handlers call notifyUser.
NextRT ==
    \/ \E w \in Sockets, token \in TokenInputs : WsConnect(w, token)
    \/ \E w \in Sockets : WsVerified(w)
    \/ \E w \in Sockets : WsClosing(w)
    \/ \E w \in Sockets : WsError(w)
    \/ \E w \in Sockets : WsClose(w)
    \/ \E userId \in RtUsers, event \in EventInputs : NotifyCall(userId, event, [gameId |-> 1])

SpecRT == Init /\ [][NextRT]_vars

\* ---------------------------------------------------------------- chat
\* The database with two matches.  Match 1, between playerX 1 and playerO
\* 2, is ACTIVE with X to move and one cell from a line; it has no chat
\* yet.  Match 2, between playerX 2 and playerO 3, was won by user 2 and
\* still has its chat 1 with one message: the move request that finished
\* it, in the last slot, has run its UPDATE (line 481) and not yet
\* deleteGameChat (line 492).
InitChat ==
    /\ games = <<[GameRow(1, 2, NULL) EXCEPT
                    !.boardState = [c \in Cells |-> IF c \in {0, 1} THEN "X"
                                                   ELSE IF c \in {3, 4} THEN "O"
                                                   ELSE "-"]],
                 [GameRow(2, 3, 1) EXCEPT
                    !.boardState = [c \in Cells |-> IF c \in {0, 1, 2} THEN "X"
                                                   ELSE IF c \in {3, 4} THEN "O"
                                                   ELSE "-"],
                    !.status = "FINISHED", !.winnerId = 2]>>
    /\ chats = {[id |-> 1, user1Id |-> 2, user2Id |-> 3]}
    /\ messages = {[id |-> 1, chatId |-> 1, senderId |-> 3,
                    content |-> <<Run("a", 2)>>]}
    /\ gameInvitations = {}
    /\ friendRequests = {}
    /\ friendships = {[id |-> 1, userId |-> 1, friendId |-> 2]}
    /\ serial = [chat |-> 1, message |-> 1, gameInvitation |-> 1,
                 friendRequest |-> 1, friendship |-> 1]
    /\ reqs = [r \in Slots |->
                 IF r = MaxInFlight
                 THEN [Idle EXCEPT !.op = "move", !.pc = "mvChatClear", !.userId = 2,
                                   !.id = 2, !.position = 2,
                                   !.row = [GameRow(2, 3, 1) EXCEPT
                                               !.boardState =
                                                  [c \in Cells |->
                                                     IF c \in {0, 1} THEN "X"
                                                     ELSE IF c \in {3, 4} THEN "O"
                                                     ELSE "-"]]]
                 ELSE Idle]
    /\ RtInit

\* The :id path parameters of the chat requests: invalid, the two matches,
\* and a match that does not exist.
GameIdInputs == 0..3

\* The cells the moves on match 1 play: the winning cell and another.
ChatCells == {2, 5}

\* The steps of the chat and move handlers running in slot r.
ChatSteps(r) ==
    \/ PostInsertChat(r)
    \/ PostSetChat(r)
    \/ PostInsertMsg(r)
    \/ PostNotify(r)
    \/ ChatClear(r)
    \/ ChatDelMessages(r)
    \/ ChatDelChat(r)
    \/ ChatInsertChat(r)
    \/ ChatSetChat(r)
    \/ ChatRead(r)
    \/ MoveUpdate(r)
    \/ MoveChatClear(r)
    \/ MoveDelMessages(r)
    \/ MoveDelChat(r)
    \/ MoveNotify(r)

\* Chat reads, posts and moves, one request at a time.
NextChat ==
    \/ \E userId \in Users, gameId \in GameIdInputs, content \in ContentInputs :
          /\ serial.message < MaxMessages
          /\ PostSelect(1, userId, gameId, content)
    \/ \E userId \in Users, gameId \in GameIdInputs : ChatSelect(1, userId, gameId)
    \/ \E userId \in Users, n \in ChatCells :
          MoveSelect(1, userId, 1, [type |-> "number", kind |-> "int", v |-> n])
    \/ ChatSteps(1)

SpecChat == InitChat /\ [][NextChat]_vars

\* The content the concurrent posts send.
ConcContent == [type |-> "string", s |-> <<Run("a", 2)>>]

\* Chat reads, posts and moves of the two players on match 1, interleaved
\* at their awaits.
NextChatConc ==
    \E r \in Slots :
        \/ \E userId \in ConcUsers :
              /\ serial.message < MaxMessages /\ serial.chat < MaxChats
              /\ PostSelect(r, userId, 1, ConcContent)
        \/ \E userId \in ConcUsers :
              /\ serial.chat < MaxChats
              /\ ChatSelect(r, userId, 1)
        \/ \E userId \in ConcUsers, n \in ChatCells :
              MoveSelect(r, userId, 1, [type |-> "number", kind |-> "int", v |-> n])
        \/ ChatSteps(r)

SpecChatConc == InitChat /\ [][NextChatConc]_vars

\* Match reads, chat reads, posts and moves of every user on every match
\* id, one request at a time.
NextAccess ==
    \/ \E userId \in Users, id \in GameIdInputs : GameSelect(1, userId, id)
    \/ GameReply(1)
    \/ \E userId \in Users, gameId \in GameIdInputs :
          /\ serial.message < MaxMessages
          /\ PostSelect(1, userId, gameId, ConcContent)
    \/ \E userId \in Users, gameId \in GameIdInputs : ChatSelect(1, userId, gameId)
    \/ \E userId \in Users, id \in GameIdInputs, n \in ChatCells :
          MoveSelect(1, userId, id, [type |-> "number", kind |-> "int", v |-> n])
    \/ ChatSteps(1)

SpecAccess == InitChat /\ [][NextAccess]_vars

\* ------------------------------------------------------------- friends
\* The users whose friends requests are interleaved: the sender and the
\* receiver of the friend request of Init.
SocialUsers == {1, 3}

\* Friend requests are created, accepted and rejected and friends removed
\* by requests of the two users, interleaved at their awaits.
NextFriends ==
    \E r \in Slots :
        \/ \E senderId \in SocialUsers, target \in SocialUsers \cup {0} :
              /\ serial.friendRequest < MaxRequests
              /\ FriendRequestSelect(r, senderId, target)
        \/ FriendRequestExisting(r)
        \/ FriendRequestInsert(r)
        \/ \E userId \in SocialUsers, id \in 1..MaxRequests :
              FriendAcceptSelect(r, userId, id)
        \/ FriendAcceptDelete(r)
        \/ FriendAcceptExisting(r)
        \/ FriendAcceptInsert(r)
        \/ \E userId \in SocialUsers, id \in 1..MaxRequests :
              FriendRejectSelect(r, userId, id)
        \/ FriendRejectDelete(r)
        \/ \E userId \in SocialUsers, friendId \in SocialUsers \cup {0} :
              FriendRemove(r, userId, friendId)

SpecFriends == Init /\ [][NextFriends]_vars

\* Game invitations are created and rejected by requests interleaved at
\* their awaits.
NextInvite ==
    \E r \in Slots :
        \/ \E senderId \in Users, target \in TargetInputs :
              /\ serial.gameInvitation < MaxInvitations
              /\ InviteSelect(r, senderId, target)
        \/ InviteExisting(r)
        \/ InviteInsert(r)
        \/ \E userId \in Users, id \in 0..MaxInvitations : InviteReject(r, userId, id)

SpecInvite == Init /\ [][NextInvite]_vars

\* ------------------------------------------------- friends and invitations
\* The steps of the friends and invitation handlers running in slot r.
SocialSteps(r) ==
    \/ FriendRequestExisting(r)
    \/ FriendRequestInsert(r)
    \/ FriendAcceptDelete(r)
    \/ FriendAcceptExisting(r)
    \/ FriendAcceptInsert(r)
    \/ FriendRejectDelete(r)
    \/ InviteExisting(r)
    \/ InviteInsert(r)
    \/ AcceptInsertChat(r)
    \/ AcceptInsertGame(r)
    \/ AcceptDelete(r)

\* The users that send the requests: the two friends of Init and the
\* user that is a friend of neither.
SocialActors == {1, 2, 3}

\* The users a targetUsername or a :friendId names; 0 is no user.
SocialTargets == {0, 1, 2, 3}

\* The :id and :requestId path parameters: 0 is not an id, 1 is the row
\* of Init, 2 the first row created after it.
SocialIds == {0, 1, 2}

\* Friend requests and game invitations are created, accepted and rejected
\* and friends removed, one request at a time.  The ids the two serials
\* hand out are MaxSocialSerial in all at most.
NextSocial ==
    \/ \E senderId \in SocialActors, target \in SocialTargets :
          /\ serial.friendRequest + serial.gameInvitation < MaxSocialSerial
          /\ FriendRequestSelect(1, senderId, target)
    \/ \E userId \in SocialActors, id \in SocialIds :
          FriendAcceptSelect(1, userId, id)
    \/ \E userId \in SocialActors, id \in SocialIds :
          FriendRejectSelect(1, userId, id)
    \/ \E userId \in SocialActors, friendId \in SocialTargets :
          FriendRemove(1, userId, friendId)
    \/ \E senderId \in SocialActors, target \in SocialTargets \cup {BlankTarget} :
          /\ serial.friendRequest + serial.gameInvitation < MaxSocialSerial
          /\ InviteSelect(1, senderId, target)
    \/ \E userId \in SocialActors, id \in SocialIds :
          AcceptSelect(1, userId, id)
    \/ \E userId \in SocialActors, id \in SocialIds :
          InviteReject(1, userId, id)
    \/ SocialSteps(1)

SpecSocial == Init /\ [][NextSocial]_vars

\* The database with more to resolve: user 3 has sent a friend request to
\* user 1 and one to user 2, and the friends 1 and 2 have invited each
\* other to a game.
InitResolve ==
    /\ games = <<>>
    /\ chats = {}
    /\ messages = {}
    /\ gameInvitations = {[id |-> 1, senderId |-> 1, receiverId |-> 2, status |-> "PENDING"],
                          [id |-> 2, senderId |-> 2, receiverId |-> 1, status |-> "PENDING"]}
    /\ friendRequests = {[id |-> 1, senderId |-> 3, receiverId |-> 1, status |-> "PENDING"],
                         [id |-> 2, senderId |-> 3, receiverId |-> 2, status |-> "PENDING"]}
    /\ friendships = {[id |-> 1, userId |-> 1, friendId |-> 2]}
    /\ serial = [chat |-> 0, message |-> 0, gameInvitation |-> 2,
                 friendRequest |-> 2, friendship |-> 1]
    /\ reqs = [r \in Slots |-> Idle]
    /\ RtInit

\* Friend requests and game invitations are accepted and rejected, one
\* request at a time.
NextResolve ==
    \/ \E userId \in SocialActors, id \in SocialIds : FriendAcceptSelect(1, userId, id)
    \/ \E userId \in SocialActors, id \in SocialIds : FriendRejectSelect(1, userId, id)
    \/ \E userId \in SocialActors, id \in SocialIds : AcceptSelect(1, userId, id)
    \/ \E userId \in SocialActors, id \in SocialIds : InviteReject(1, userId, id)
    \/ FriendAcceptDelete(1)
    \/ FriendAcceptExisting(1)
    \/ FriendAcceptInsert(1)
    \/ FriendRejectDelete(1)
    \/ AcceptInsertChat(1)
    \/ AcceptInsertGame(1)
    \/ AcceptDelete(1)

SpecResolve == InitResolve /\ [][NextResolve]_vars

\* ---------------------------------------------------------- handshake
\* Sockets connect with handshake and session tokens; tokens expire,
\* sockets fail and close; clients call GET /me with the same tokens.
NextWs ==
    \/ \E w \in Sockets, token \in HandshakeInputs : WsConnect(w, token)
    \/ \E w \in Sockets : WsVerified(w)
    \/ \E w \in Sockets : TokenExpires(w)
    \/ \E w \in Sockets : WsClosing(w)
    \/ \E w \in Sockets : WsError(w)
    \/ \E w \in Sockets : WsClose(w)
    \/ \E token \in HandshakeInputs : Me(1, token)

SpecWs == Init /\ [][NextWs]_vars

\* ------------------------------------------------- everything at once
\* The matches the move requests name: match 1 of InitChat and the match
\* an accepted invitation creates.
MoveGames == {1, 3}

\* The cell the moves play: on match 1 it completes the top row for X.
FrameCell == 2

\* The connection opened, and its user: the player of match 2 whom the
\* requests sent here do not notify.
FrameSockets == {1}
FrameSocketUser == 3

\* The matches the chat reads name: the two of InitChat.
ReadGames == {1, 2}

\* The :id and :requestId path parameter: the id of the first friend
\* request or invitation created after InitChat.
FrameId == 2

\* The content of the messages posted.
FrameContent == {[type |-> "string", s |-> <<Run(" ", 1), Run("a", 2), Run(" ", 1)>>]}

\* The ids handed out so far to messages, friend requests and invitations.
FrameSerial == serial.message + serial.friendRequest + serial.gameInvitation

\* Moves, chat reads, posts, invitation and friend requests, one request at
\* a time, while sockets of the users connect and close.  The ids handed
\* out to messages, friend requests and invitations are MaxFrameSerial in
\* all at most.
NextFrame ==
    \/ \E userId \in ConcUsers, gameId \in MoveGames :
          MoveSelect(1, userId, gameId, [type |-> "number", kind |-> "int", v |-> FrameCell])
    \/ \E userId \in ConcUsers, content \in FrameContent :
          /\ FrameSerial < MaxFrameSerial
          /\ PostSelect(1, userId, 1, content)
    \/ \E userId \in ConcUsers, gameId \in ReadGames : ChatSelect(1, userId, gameId)
    \/ \E senderId \in ConcUsers, target \in ConcUsers :
          /\ FrameSerial < MaxFrameSerial
          /\ FriendRequestSelect(1, senderId, target)
    \/ \E userId \in ConcUsers : FriendAcceptSelect(1, userId, FrameId)
    \/ \E userId \in ConcUsers : FriendRejectSelect(1, userId, FrameId)
    \/ \E userId \in ConcUsers, friendId \in ConcUsers :
          FriendRemove(1, userId, friendId)
    \/ \E senderId \in ConcUsers, target \in ConcUsers :
          /\ FrameSerial < MaxFrameSerial
          /\ InviteSelect(1, senderId, target)
    \/ \E userId \in ConcUsers : AcceptSelect(1, userId, FrameId)
    \/ \E userId \in ConcUsers : InviteReject(1, userId, FrameId)
    \/ ChatSteps(1)
    \/ SocialSteps(1)
    \/ \E w \in FrameSockets, token \in {WsToken(FrameSocketUser)} : WsConnect(w, token)
    \/ \E w \in FrameSockets : WsVerified(w)
    \/ \E w \in FrameSockets : WsClose(w)

SpecFrame == InitChat /\ [][NextFrame]_vars

\* The lifetime of the connections that present a handshake token: they
\* are verified and registered, their tokens expire, they fail and close.
NextLife ==
    \/ \E w \in Sockets, token \in HandshakeTokens : WsConnect(w, token)
    \/ \E w \in Sockets : WsVerified(w)
    \/ \E w \in Sockets : TokenExpires(w)
    \/ \E w \in Sockets : WsError(w)
    \/ \E w \in Sockets : WsClose(w)

SpecLife == Init /\ [][NextLife]_vars

\* ------------------------------------------------ moves and sockets
\* The cells the notified moves play: no line of three among them.
NotifyCells == {0, 1, 3}

\* Sockets of the two players connect, break and close while the players
\* move on match 1, one request at a time.
NextNotify ==
    \/ \E w \in Sockets, token \in HandshakeTokens : WsConnect(w, token)
    \/ \E w \in Sockets : WsVerified(w)
    \/ \E w \in Sockets : WsSendFails(w)
    \/ \E w \in Sockets : WsClose(w)
    \/ \E userId \in ConcUsers, n \in NotifyCells :
          MoveSelect(1, userId, 1, [type |-> "number", kind |-> "int", v |-> n])
    \/ MoveUpdate(1)
    \/ MoveNotify(1)

SpecNotify == InitPlaying /\ [][NextNotify]_vars

\* ================================================================ claims
\* The step in which slot r's move request executes its UPDATE.
UpdateStep(r) == reqs[r].pc = "mvUpdate" /\ reqs'[r].pc # "mvUpdate"

\* The step in which slot r answers a move request with an error.
MoveRejectedStep(r) ==
    /\ Free(r)
    /\ reqs'[r].op = "move" /\ reqs'[r].pc = "done" /\ reqs'[r].code # 200

OtherSymbol(symbol) == IF symbol = "X" THEN "O" ELSE "X"

\* The symbol the match assigns to a user (X to playerX, O to playerO).
SymbolOf(g, userId) == IF games[g].playerXId = userId THEN "X" ELSE "O"

\* The eight lines of the 3x3 board, from its geometry.
BoardLines ==
    {{3 * i, 3 * i + 1, 3 * i + 2} : i \in 0..2}
        \cup {{i, i + 3, i + 6} : i \in 0..2}
        \cup {{0, 4, 8}, {2, 4, 6}}

HasLine(board, symbol) == \E l \in BoardLines : \A c \in l : board[c] = symbol

BoardFull(board) == \A c \in Cells : board[c] # "-"

\* C1: with requests handled one at a time, an accepted move changes the
\* persisted board in exactly the requested cell, which was empty and now
\* holds the mover's symbol; afterwards the match is ACTIVE with the turn
\* on the other symbol, or it is FINISHED or DRAW.
C1_MoveWritesOneCell ==
    [][\A r \in Slots : UpdateStep(r) =>
          LET q == reqs[r]
              before == games[q.id]
              after == games'[q.id]
              symbol == SymbolOf(q.id, q.userId)
          IN
          /\ before.boardState[q.position] = "-"
          /\ after.boardState[q.position] = symbol
          /\ \A c \in Cells \ {q.position} : after.boardState[c] = before.boardState[c]
          /\ \/ after.status = "ACTIVE" /\ after.playerTurn = OtherSymbol(symbol)
             \/ after.status \in {"FINISHED", "DRAW"}]_vars

\* C1 witness: an accepted move has been answered and the match goes on.
C1_Witness ==
    /\ reqs[1].op = "move" /\ reqs[1].pc = "done" /\ reqs[1].code = 200
    /\ games[1].status = "ACTIVE"
    /\ games[1].boardState[reqs[1].position] = SymbolOf(1, reqs[1].userId)
    /\ games[1].playerTurn = OtherSymbol(SymbolOf(1, reqs[1].userId))

\* C2: an accepted move that completes a line of the mover's symbol makes
\* the match FINISHED with winnerId the mover and the turn unchanged, also
\* on a full board; a move makes the match DRAW only when the board is full
\* and the mover has no line.
C2_WinBeforeDraw ==
    [][\A r \in Slots : UpdateStep(r) =>
          LET q == reqs[r]
              before == games[q.id]
              after == games'[q.id]
              symbol == SymbolOf(q.id, q.userId)
          IN
          /\ HasLine(after.boardState, symbol) =>
                /\ after.status = "FINISHED"
                /\ after.winnerId = q.userId
                /\ after.playerTurn = before.playerTurn
          /\ after.status = "DRAW" =>
                BoardFull(after.boardState) /\ ~HasLine(after.boardState, symbol)]_vars

\* C2 witness: the ninth move completed a line and the match is FINISHED.
C2_Witness ==
    /\ Len(games) = 1
    /\ games[1].status = "FINISHED"
    /\ BoardFull(games[1].boardState)
    /\ games[1].winnerId = games[1].playerXId
    /\ reqs[1].op = "move" /\ reqs[1].pc = "done" /\ reqs[1].code = 200

\* The requests C3 is about, stated on the stored match.
MustReject(userId, id, p) ==
    /\ id \in 1..Len(games)
    /\ \/ games[id].status # "ACTIVE"
       \/ p.type = "number" /\ p.kind = "int" /\ p.v \in Cells
            /\ games[id].boardState[p.v] # "-"
       \/ userId \notin {games[id].playerXId, games[id].playerOId}
       \/ userId = games[id].playerXId /\ games[id].playerTurn # "X"
       \/ userId = games[id].playerOId /\ games[id].playerTurn # "O"
       \/ ~(p.type = "number" /\ p.kind = "int" /\ p.v \in Cells)

\* C3: a move on a match that is not ACTIVE, on an occupied cell, out of
\* turn, by a non-participant or off the board is answered with an error,
\* and a move answered with an error leaves the match, its chat and its
\* messages as they were and sends no notification.
C3_RejectedMoveChangesNothing ==
    /\ [](\A userId \in Users, id \in 1..Len(games), p \in PositionInputs :
             MustReject(userId, id, p) => MoveError(userId, id, p)[1] \in {400, 403, 404})
    /\ [][\A r \in Slots : MoveRejectedStep(r) =>
             /\ games' = games
             /\ chats' = chats
             /\ messages' = messages
             /\ reqs'[r].notified = <<>>]_vars

\* C3 witness: a move on an occupied cell of an ACTIVE match was refused.
C3_Witness ==
    /\ reqs[1].op = "move" /\ reqs[1].code = 400 /\ reqs[1].error = "Casilla ocupada"
    /\ Len(games) = 1 /\ games[1].status = "ACTIVE"

\* C4: once a match is FINISHED or DRAW its status, board, turn and
\* winnerId never change again, also for requests in flight at that time.
C4_TerminalIsFinal ==
    [][\A g \in 1..Len(games) :
          games[g].status \in {"FINISHED", "DRAW"} =>
             /\ games'[g].status = games[g].status
             /\ games'[g].boardState = games[g].boardState
             /\ games'[g].playerTurn = games[g].playerTurn
             /\ games'[g].winnerId = games[g].winnerId]_vars

\* C5: in every state, winnerId is set exactly when the match is FINISHED.
C5_WinnerIffFinished ==
    \A g \in 1..Len(games) :
        (games[g].winnerId # NULL) <=> (games[g].status = "FINISHED")

\* The users a friendship row links.
Pair(f) == {f.userId, f.friendId}

\* C6: concurrent accepts of one PENDING invitation or friend request never
\* derive two rows: at most one match and one chat for the invitation, at
\* most one friendship row for the pair of the request.
C6_OneDerivedRelationship ==
    /\ Len(games) <= 1
    /\ Cardinality(chats) <= 1
    /\ \A f1, f2 \in friendships : Pair(f1) = Pair(f2) => f1 = f2

\* A move request of slot r that passed every check on match g.
AcceptedOn(r, g) ==
    /\ reqs[r].op = "move" /\ reqs[r].id = g
    /\ reqs[r].pc \in {"mvUpdate", "mvChatClear", "mvDelMessages", "mvDelChat",
                       "mvUsers"}
         \/ (reqs[r].pc = "done" /\ reqs[r].code = 200)

\* C7: of two move requests in flight at once on a match at most one is
\* accepted, and a move answered as accepted is on the persisted board.
C7_MovesSerialized ==
    /\ \A r1, r2 \in Slots, g \in 1..Len(games) :
          (r1 # r2 /\ AcceptedOn(r1, g) /\ AcceptedOn(r2, g)) =>
             ~(reqs[r1].pc # "done" /\ reqs[r2].pc # "done")
    /\ \A r \in Slots :
          (reqs[r].op = "move" /\ reqs[r].pc = "done" /\ reqs[r].code = 200) =>
             games[reqs[r].id].boardState[reqs[r].position]
                = SymbolOf(reqs[r].id, reqs[r].userId)

\* The second half of C7 alone: no accepted move is lost.
C7_AcceptedMovePersists ==
    \A r \in Slots :
        (reqs[r].op = "move" /\ reqs[r].pc = "done" /\ reqs[r].code = 200) =>
           games[reqs[r].id].boardState[reqs[r].position]
              = SymbolOf(reqs[r].id, reqs[r].userId)


\* The sockets registered for a user: the members of the user's Set.
Registered(userId) ==
    IF userId \in DOMAIN userSockets THEN sets[userSockets[userId]] ELSE {}

\* C8: notifyUser on a user without registry entry sends nothing and
\* changes nothing; on a user with registered sockets it sends the payload
\* {event, data} once on each socket whose readyState is OPEN and on no
\* other socket, and it leaves the registry unchanged.
C8_NotifyReachesOpenSockets ==
    [][\A userId \in RtUsers, event \in EventInputs :
          NotifyCall(userId, event, [gameId |-> 1]) =>
             /\ userSockets' = userSockets /\ sets' = sets /\ ws' = ws
             /\ userId \notin DOMAIN userSockets => out' = out
             /\ \A w \in Sockets :
                   IF w \in Registered(userId) /\ ws[w].readyState = OPEN
                   THEN out'[w] = Append(out[w], [event |-> event, data |-> [gameId |-> 1]])
                   ELSE out'[w] = out[w]]_vars

\* C8 witness: a user has two registered sockets, one open and one not;
\* the open one has received a payload, the other none.
C8_Witness ==
    \E userId \in RtUsers : \E w1, w2 \in Registered(userId) :
        /\ ws[w1].readyState = OPEN /\ Len(out[w1]) = 1
        /\ ws[w2].readyState # OPEN /\ Len(out[w2]) = 0
        /\ calls = 1

\* The step in which an event of socket w runs the attached remove.
RemoveRuns(w) ==
    /\ ws[w].stage = "registered"
    /\ \/ ws'[w].errored /\ ~ws[w].errored
       \/ ws'[w].readyState = CLOSED /\ ws[w].readyState # CLOSED

\* C9: remove on a socket that is no longer in its Set changes nothing;
\* remove of a user's last socket deletes the user's key; and in every
\* state no user maps to an empty Set.
C9_RemoveIdempotentNoEmptySet ==
    /\ [](\A u \in DOMAIN userSockets : sets[userSockets[u]] # {})
    /\ [][\A w \in Sockets : RemoveRuns(w) =>
             IF w \in sets[ws[w].set]
             THEN /\ w \notin sets'[ws[w].set]
                  /\ sets[ws[w].set] = {w} => ws[w].userId \notin DOMAIN userSockets'
             ELSE /\ userSockets' = userSockets
                  /\ sets' = sets
                  /\ removals' = removals]_vars

\* C9 witness: 'error' and 'close' have both fired for a registered socket
\* that was the last of its user: it was deleted once and the key is gone.
C9_Witness ==
    \E w \in Sockets :
        /\ ws[w].stage = "registered" /\ ws[w].errored /\ ws[w].readyState = CLOSED
        /\ removals[w] = 1
        /\ ws[w].userId \notin DOMAIN userSockets

\* C10: a connection that has closed, at whatever point of its lifecycle,
\* is in no user's Set once its handler has finished, and remove deleted it
\* at most once.
C10_ClosedIsDeregistered ==
    \A w \in Sockets :
        /\ (ws[w].readyState = CLOSED /\ ws[w].stage # "verifying") =>
              \A u \in DOMAIN userSockets : w \notin sets[userSockets[u]]
        /\ removals[w] <= 1

\* The users with a connection that has been opened and is not yet closed:
\* the user a socket was registered for, or the user its token names while
\* the token is being verified.
ConnectedUsers ==
    {u \in Users : \E w \in Sockets :
        /\ ws[w].readyState \in {OPEN, CLOSING}
        /\ \/ ws[w].stage = "registered" /\ ws[w].userId = u
           \/ ws[w].stage = "verifying" /\ ws[w].token.kind = "valid"
                                        /\ ws[w].token.id = u}

\* C11: the map has at most as many keys as there are users with a
\* connection that has been opened and is not yet closed.
C11_RegistryBoundedByConnected ==
    Cardinality(DOMAIN userSockets) <= Cardinality(ConnectedUsers)

\* The step in which the server refuses the connection request of socket w.
RefusedStep(w) == ws[w].stage # "refused" /\ ws'[w].stage = "refused"

\* C12: a connection request whose token is missing, refused by jwt.verify
\* (bad signature, expired) or decoded to a payload without id is closed
\* by the server in the step that refuses it, and the socket is never in
\* any user's Set and never has a payload sent on it.
C12_BadTokenClosedUnregistered ==
    /\ [](\A w \in Sockets :
            (\/ ws[w].stage = "refused"
             \/ ws[w].stage = "verifying" /\ ws[w].token.kind # "valid") =>
               /\ \A s \in Sockets : w \notin sets[s]
               /\ out[w] = << >>)
    /\ [](\A w \in Sockets :
            ws[w].stage = "refused" => ws[w].readyState \in {CLOSING, CLOSED})
    /\ [][\A w \in Sockets :
             /\ RefusedStep(w) => ws'[w].readyState \in {CLOSING, CLOSED}
             /\ (ws[w].stage = "none" /\ ws'[w].stage = "verifying") =>
                   ws'[w].token.kind # "missing"
             /\ (ws[w].stage = "verifying" /\ ws[w].token.kind # "valid"
                    /\ ws'[w] # ws[w] /\ ws'[w].stage # "verifying") =>
                   ws'[w].stage = "refused"]_vars

\* C12 witness: a connection request was refused and closed while the
\* other socket, registered for a user, has received a payload.
C12_Witness ==
    \E w, w2 \in Sockets :
        /\ ws[w].stage = "refused" /\ ws[w].readyState \in {CLOSING, CLOSED}
        /\ out[w] = << >>
        /\ ws[w2].stage = "registered" /\ Len(out[w2]) = 1

\* The step in which slot r's accept request executes its INSERT INTO game.
AcceptInsertStep(r) == reqs[r].pc = "acInsertGame" /\ reqs'[r].pc # "acInsertGame"

\* The step in which slot r's accept request ends with success.
AcceptDoneStep(r) == reqs[r].pc = "acDelete" /\ reqs'[r].pc = "done"

\* C13: the accept of a PENDING invitation of sender S by its receiver
\* creates exactly one match, with the empty board, turn X, status ACTIVE,
\* no winner, playerX = S and playerO = the receiver; when it ends the
\* invitation is no longer PENDING and S was sent one
\* game_invitation_accepted notification that carries the new match's id.
C13_AcceptCreatesOneMatch ==
    [][\A r \in Slots :
          /\ AcceptInsertStep(r) =>
                /\ Len(games') = Len(games) + 1
                /\ \A g \in 1..Len(games) : games'[g] = games[g]
                /\ LET m == games'[Len(games')] IN
                      /\ m.boardState = [c \in Cells |-> "-"]
                      /\ m.playerTurn = "X" /\ m.status = "ACTIVE" /\ m.winnerId = NULL
                      /\ m.playerXId = reqs[r].row.senderId
                      /\ m.playerOId = reqs[r].userId
                /\ reqs'[r].newGame = Len(games')
          /\ (reqs[r].op = "accept" /\ ~AcceptInsertStep(r)) => games' = games
          /\ (Free(r) /\ reqs'[r].op = "accept") => games' = games
          /\ AcceptDoneStep(r) =>
                /\ ~\E i \in gameInvitations' : i.id = reqs[r].id /\ i.status = "PENDING"
                /\ reqs'[r].code = 200
                /\ Len(reqs'[r].notified) = 1
                /\ reqs'[r].notified[1].to = reqs[r].row.senderId
                /\ reqs'[r].notified[1].event = "game_invitation_accepted"
                /\ reqs'[r].notified[1].data.gameId = reqs[r].newGame
                /\ reqs[r].newGame = Len(games)
                /\ games[reqs[r].newGame].playerXId = reqs[r].row.senderId]_vars

\* C13 witness: user 2 has accepted the invitation of user 1; match 1 exists
\* between them, the invitation is gone and user 1 was notified.
C13_Witness ==
    /\ reqs[1].op = "accept" /\ reqs[1].pc = "done" /\ reqs[1].code = 200
    /\ Len(games) = 1 /\ games[1].playerXId = 1 /\ games[1].playerOId = 2
    /\ gameInvitations = {}
    /\ reqs[1].notified[1].to = 1

\* A move, chat-read or post-message request on match g is mid-execution.
MidExecution(g) ==
    \E r \in Slots : /\ reqs[r].op \in {"move", "chat", "post"}
                     /\ ~Free(r)
                     /\ reqs[r].id = g

\* The chat rows created for match g: those of its pair of players.
ChatsOf(g) ==
    {c \in chats : c.user1Id = games[g].playerXId /\ c.user2Id = games[g].playerOId}

\* C14: in every state in which a match is FINISHED or DRAW and no request
\* on it is mid-execution, its chatId is null and no chat row and no
\* message row created for it exists.
C14_ChatDoesNotOutliveMatch ==
    \A g \in 1..Len(games) :
        (games[g].status \in {"FINISHED", "DRAW"} /\ ~MidExecution(g)) =>
           /\ games[g].chatId = NULL
           /\ ChatsOf(g) = {}
           /\ ~\E m \in messages : \E c \in ChatsOf(g) : m.chatId = c.id

\* The step in which slot r answers a post-message request with a rejection
\* of its checks.
PostRejectedStep(r) ==
    /\ Free(r)
    /\ reqs'[r].op = "post" /\ reqs'[r].pc = "done"

\* Every character of the string is white space (none, when it is empty).
Blank(s) == \A i \in 1..Len(s) : s[i].ch = " "

\* The cases in which a post-message request has to be rejected.
MustRejectPost(userId, gameId, content) ==
    \/ gameId \notin 1..Len(games)
    \/ games[gameId].status = "FINISHED"
    \/ games[gameId].status = "DRAW"
    \/ userId \notin {games[gameId].playerXId, games[gameId].playerOId}
    \/ content.type = "string" /\ Blank(content.s)

\* C15: a post-message request on a match that does not exist or is
\* FINISHED or DRAW, by a user who is not one of its players, or with a
\* content that is empty after trimming, is rejected; the rejection stores
\* no message, creates no chat, leaves the matches unchanged and sends no
\* notification.
C15_RejectedPostChangesNothing ==
    /\ [](\A userId \in Users, gameId \in GameIdInputs, content \in ContentInputs :
            MustRejectPost(userId, gameId, content) =>
               PostError(userId, gameId, content)[1] \in {400, 403, 404})
    /\ [][\A r \in Slots : PostRejectedStep(r) =>
             /\ reqs'[r].code \in {400, 403, 404}
             /\ messages' = messages /\ chats' = chats /\ games' = games
             /\ serial' = serial
             /\ reqs'[r].notified = << >>]_vars

\* C15 witness: a post on a terminal match was rejected while the chat of
\* that match and its message still exist.
C15_Witness ==
    /\ reqs[1].op = "post" /\ reqs[1].pc = "done" /\ reqs[1].code = 403
    /\ reqs[1].error = "El chat no esta disponible para partidas terminadas"
    /\ \E g \in 1..Len(games) :
          /\ games[g].status = "FINISHED" /\ games[g].chatId # NULL
          /\ \E m \in messages : m.chatId = games[g].chatId

\* The characters of a string, one by one.
Chars(s) ==
    LET before == [k \in 0..Len(s) |-> StrLen(SubSeq(s, 1, k))] IN
    [i \in 1..StrLen(s) |->
        s[CHOOSE k \in 1..Len(s) : before[k - 1] < i /\ i <= before[k]].ch]

\* The string without its leading and trailing white space, cut to its
\* first max characters.
TrimmedCut(t, max) ==
    LET solid == {i \in 1..Len(t) : t[i] # " "}
        first == CHOOSE i \in solid : \A j \in 1..(i - 1) : t[j] = " "
        last == CHOOSE i \in solid : \A j \in (i + 1)..Len(t) : t[j] = " "
    IN IF solid = {} THEN << >>
       ELSE SubSeq(t, first, IF last - first + 1 > max THEN first + max - 1 ELSE last)

\* The step in which slot r's post-message request stores its message.
PostInsertStep(r) == reqs[r].pc = "pmInsertMsg" /\ reqs'[r].pc = "pmUsers"

\* The step in which slot r's post-message request ends with success.
PostDoneStep(r) == reqs[r].pc = "pmUsers" /\ reqs'[r].pc = "done"

\* The other player of match g.
Opponent(g, userId) ==
    IF games[g].playerXId = userId THEN games[g].playerOId ELSE games[g].playerXId

\* C16: a successful post-message on an ACTIVE match adds exactly one
\* message to the match's chat, whose content is the trimmed input cut to
\* at most 2000 characters, and changes no earlier message; it then sends
\* one chat_message notification to the opponent with isMine = false and
\* one to the sender with isMine = true, once the message is stored.
C16_PostAppendsOneMessage ==
    [][\A r \in Slots :
          /\ PostInsertStep(r) =>
                \E m \in messages' :
                    /\ \A old \in messages : old.id # m.id
                    /\ messages' = messages \cup {m}
                    /\ games[reqs[r].id].status = "ACTIVE"
                    /\ m.chatId = games[reqs[r].id].chatId /\ m.chatId # NULL
                    /\ m.senderId = reqs[r].userId
                    /\ Chars(m.content) = TrimmedCut(Chars(reqs[r].content), 2000)
                    /\ StrLen(m.content) \in 1..2000
                    /\ reqs'[r].msg = m.id
          /\ (reqs[r].op = "post" /\ ~PostInsertStep(r)) => messages' = messages
          /\ (Free(r) /\ reqs'[r].op = "post") => messages' = messages
          /\ PostDoneStep(r) =>
                /\ reqs'[r].code = 201
                /\ \E m \in messages :
                      /\ m.id = reqs[r].msg
                      /\ Len(reqs'[r].notified) = 2
                      /\ \E i, j \in 1..2 :
                            LET a == reqs'[r].notified[i]
                                b == reqs'[r].notified[j]
                            IN /\ a.to = Opponent(reqs[r].id, reqs[r].userId)
                               /\ b.to = reqs[r].userId
                               /\ a.event = "chat_message" /\ b.event = "chat_message"
                               /\ a.data.gameId = reqs[r].id /\ b.data.gameId = reqs[r].id
                               /\ a.data.message.isMine = FALSE
                               /\ b.data.message.isMine = TRUE
                               /\ a.data.message.id = m.id /\ b.data.message.id = m.id
                               /\ a.data.message.content = m.content
                               /\ b.data.message.content = m.content]_vars

\* C16 witness: a post whose input was padded and too long has ended; its
\* message of 2000 characters is the second in the match's chat and the
\* sender's notification is tagged isMine.
C16_Witness ==
    /\ reqs[1].op = "post" /\ reqs[1].pc = "done" /\ reqs[1].code = 201
    /\ Len(reqs[1].content) = 3
    /\ reqs[1].notified[2].data.message.isMine
    /\ \E m1, m2 \in messages :
          /\ m1.chatId = m2.chatId /\ m1.id < m2.id
          /\ m1.chatId = games[1].chatId
          /\ m2.id = reqs[1].msg /\ StrLen(m2.content) = 2000

\* Match g is FINISHED or DRAW and userId is one of its players.
TerminalFor(userId, gameId) ==
    /\ gameId \in 1..Len(games)
    /\ games[gameId].status \in {"FINISHED", "DRAW"}
    /\ userId \in {games[gameId].playerXId, games[gameId].playerOId}

\* The board, turn, status and winner of every match stay as they are.
PlayUnchanged ==
    /\ Len(games') = Len(games)
    /\ \A g \in 1..Len(games) :
          /\ games'[g].boardState = games[g].boardState
          /\ games'[g].playerTurn = games[g].playerTurn
          /\ games'[g].status = games[g].status
          /\ games'[g].winnerId = games[g].winnerId

\* The step in which a chat-read request starts in slot r: its checks and
\* its SELECT of the match.
ChatStartStep(r) == Free(r) /\ reqs'[r] # reqs[r] /\ reqs'[r].op = "chat"

\* C17: a chat-read by a player of a FINISHED or DRAW match is rejected and
\* tears the chat down: when the request ends the match's chatId is null
\* and the chat row and all its messages are deleted; board, turn, status
\* and winnerId of the match are unchanged.
C17_ChatReadOnTerminalTearsDown ==
    [][\A r \in Slots :
          /\ (ChatStartStep(r) /\ TerminalFor(reqs'[r].userId, reqs'[r].id)) =>
                /\ reqs'[r].code # 200
                /\ PlayUnchanged
                /\ IF games[reqs'[r].id].chatId = NULL
                   THEN reqs'[r].pc = "done" /\ reqs'[r].code = 403
                   ELSE reqs'[r].pc # "done" /\ reqs'[r].row = games[reqs'[r].id]
          /\ (reqs[r].op = "chat" /\ reqs[r].pc \in {"crChatClear", "crDelMessages",
                                                     "crDelChat"}) =>
                (reqs'[r] # reqs[r] =>
                   /\ PlayUnchanged
                   /\ reqs'[r].pc = "done" =>
                         /\ reqs'[r].code = 403
                         /\ games'[reqs[r].id].chatId = NULL
                         /\ ~\E c \in chats' : c.id = reqs[r].row.chatId
                         /\ ~\E m \in messages' : m.chatId = reqs[r].row.chatId)]_vars

\* C17 witness: a chat-read on match 2, FINISHED with chat 1 and a message,
\* has been rejected; chat 1 and its message are gone and match 2 is as it
\* was, with chatId null.
C17_Witness ==
    /\ reqs[1].op = "chat" /\ reqs[1].pc = "done" /\ reqs[1].code = 403
    /\ reqs[1].id = 2 /\ reqs[1].newChat = 1
    /\ games[2].chatId = NULL /\ games[2].status = "FINISHED" /\ games[2].winnerId = 2
    /\ ~\E c \in chats : c.id = 1
    /\ ~\E m \in messages : m.chatId = 1

\* C18: there is at most one PENDING friend request between any two
\* users, counting both directions.
C18_OnePendingRequestPerPair ==
    \A a, b \in Users :
        a # b => Cardinality({q \in friendRequests :
                                /\ {q.senderId, q.receiverId} = {a, b}
                                /\ q.status = "PENDING"}) <= 1

\* C19: there is at most one PENDING game invitation from any sender to
\* any receiver.
C19_OnePendingInvitationPerOrderedPair ==
    \A s, t \in Users :
        Cardinality({i \in gameInvitations :
                       /\ i.senderId = s /\ i.receiverId = t
                       /\ i.status = "PENDING"}) <= 1

\* C20: there is at most one friendship row for any two users, whichever
\* direction the rows have.
C20_OneFriendshipPerPair ==
    \A a, b \in Users :
        a # b => Cardinality({f \in friendships : {f.userId, f.friendId} = {a, b}}) <= 1

\* C21: a match is created by an accept request only if a friendship row
\* links the invitation's sender and receiver at the time of the accept.
C21_AcceptGatedOnFriendship ==
    [][\A r \in Slots :
          AcceptInsertStep(r) =>
              FriendRows(reqs[r].row.senderId, reqs[r].row.receiverId) # {}]_vars

\* The requests that resolve a friend request or a game invitation.
ResolveOps == {"friendAccept", "friendReject", "accept", "inviteReject"}

\* Slot r starts a request that accepts or rejects.
ResolveStart(r) ==
    /\ Free(r)
    /\ reqs'[r] # reqs[r]
    /\ reqs'[r].op \in ResolveOps

\* The row with that id, of the table the request is about, when it is
\* PENDING and addressed to that user.
PendingRowsFor(op, userId, id) ==
    IF op \in {"friendAccept", "friendReject"}
    THEN {f \in friendRequests : f.id = id /\ f.status = "PENDING" /\ f.receiverId = userId}
    ELSE {i \in gameInvitations : i.id = id /\ i.status = "PENDING" /\ i.receiverId = userId}

\* The request of slot r is refused with that code: nothing stored changes
\* and nobody is notified.
RefusedWith(r, codes) ==
    /\ reqs'[r].pc = "done"
    /\ reqs'[r].code \in codes
    /\ reqs'[r].notified = <<>>
    /\ UNCHANGED dbVars

\* The requests slot r may be starting: the callers and ids for which the
\* step is a step of the handler named in the reply.
ResolveInputs(r) ==
    {in \in SocialActors \X SocialIds :
        \/ reqs'[r].op = "friendAccept" /\ FriendAcceptSelect(r, in[1], in[2])
        \/ reqs'[r].op = "friendReject" /\ FriendRejectSelect(r, in[1], in[2])
        \/ reqs'[r].op = "accept" /\ AcceptSelect(r, in[1], in[2])
        \/ reqs'[r].op = "inviteReject" /\ InviteReject(r, in[1], in[2])}

SocialSuccessStep(r) ==
    /\ reqs'[r] # reqs[r]
    /\ reqs'[r].pc = "done"
    /\ reqs'[r].code = 200
    /\ reqs'[r].op \in {"friendRequest", "invite"} \cup ResolveOps

\* The other user of a finished request: the target of a create, the sender
\* of the row that was accepted or rejected.
Counterpart(q) ==
    IF q.op \in {"friendRequest", "invite"} THEN q.row.id ELSE q.row.senderId

\* The notification data names user u, by id or by username.
IdentifiesActor(data, u) ==
    \/ "senderId" \in DOMAIN data /\ data.senderId = u
    \/ "userId" \in DOMAIN data /\ data.userId = u
    \/ "opponentUsername" \in DOMAIN data /\ data.opponentUsername = Username(u)

\* C23: every successful create, accept and reject of a friend request or
\* of a game invitation sends one notification to the counterpart user,
\* identifying the acting user; the one of a game-invitation accept carries
\* the id of the match just created.
C23_EveryResolutionNotifiesCounterpart ==
    [][\A r \in Slots :
          SocialSuccessStep(r) =>
             LET q == reqs'[r] IN
             /\ Len(q.notified) = 1
             /\ q.notified[1].to = Counterpart(q)
             /\ IdentifiesActor(q.notified[1].data, q.userId)
             /\ q.op = "accept" =>
                   /\ q.notified[1].data.gameId = Len(games')
                   /\ games'[Len(games')].playerXId = q.row.senderId
                   /\ games'[Len(games')].playerOId = q.userId]_vars

\* Slot r's move request, its UPDATE done, calls notifyUser and replies.
MoveNotifyStep(r) == reqs[r].pc = "mvUsers" /\ reqs'[r].pc = "done"

\* The other player of the match of the running request q.
OpponentOf(q) ==
    IF q.row.playerXId = q.userId THEN q.row.playerOId ELSE q.row.playerXId

\* C24: a send that raises never fails the operation: the other open
\* sockets of the recipient still receive the payload, and the move whose
\* UPDATE was already executed still reports success.
C24_SendFailureIsSwallowed ==
    [][\A r \in Slots :
          MoveNotifyStep(r) =>
             /\ reqs'[r].code = 200
             /\ \A w \in SendTargets(OpponentOf(reqs[r])) :
                   ~ws[w].faulty =>
                      out'[w] = Append(out[w],
                                       [event |-> "game_move",
                                        data |-> [gameId |-> reqs[r].id,
                                                  opponentUsername |->
                                                     Username(reqs[r].userId)]])]_vars

\* The guard of a create request of sender on target fails: target is the
\* sender or no user; for a friend request the two are friends or a PENDING
\* request links them; for an invitation they are not friends or a PENDING
\* invitation of the sender to the target exists.
CreateGuardFails(op, sender, target) ==
    \/ target \notin Users
    \/ target = sender
    \/ /\ op = "friendRequest"
       /\ \/ \E f \in friendships : {f.userId, f.friendId} = {sender, target}
          \/ \E q \in friendRequests :
                {q.senderId, q.receiverId} = {sender, target} /\ q.status = "PENDING"
    \/ /\ op = "invite"
       /\ \/ ~\E f \in friendships : {f.userId, f.friendId} = {sender, target}
          \/ \E i \in gameInvitations :
                i.senderId = sender /\ i.receiverId = target /\ i.status = "PENDING"

\* The create requests slot r may be starting: the senders and targets for
\* which the step is a step of the handler named in the reply.
CreateInputs(r) ==
    {in \in SocialActors \X (SocialTargets \cup {BlankTarget}) :
        \/ reqs'[r].op = "friendRequest" /\ FriendRequestSelect(r, in[1], in[2])
        \/ reqs'[r].op = "invite" /\ InviteSelect(r, in[1], in[2])}

\* Slot r's create request is answered with a refusal: no row is inserted
\* and nobody is notified.
CreateRefused(r) ==
    /\ reqs'[r].pc = "done"
    /\ reqs'[r].code \in {400, 403, 404}
    /\ reqs'[r].notified = <<>>
    /\ UNCHANGED <<dbVars, out>>

\* C25: a create request whose guard fails is rejected, inserts no row and
\* sends no notification; an invitation between users that are not friends
\* is reported with code NOT_FRIEND.
C25_FailedCreateChangesNothing ==
    [][\A r \in Slots :
          \* the request as it starts: still running, or refused
          /\ (Free(r) /\ reqs'[r] # reqs[r] /\ reqs'[r].op \in {"friendRequest", "invite"})
                => \A in \in CreateInputs(r) :
                      CreateGuardFails(reqs'[r].op, in[1], in[2])
                         => \/ CreateRefused(r)
                               /\ (/\ reqs'[r].op = "invite"
                                   /\ in[2] \in Users \ {in[1]}
                                   /\ FriendRows(in[1], in[2]) = {})
                                     => /\ reqs'[r].code = 403
                                        /\ reqs'[r].errCode = "NOT_FRIEND"
                            \/ /\ reqs'[r].pc \in {"frExisting", "ivExisting"}
                               /\ UNCHANGED <<dbVars, out>>
          \* the SELECT of the PENDING rows
          /\ (/\ reqs[r].pc \in {"frExisting", "ivExisting"}
              /\ reqs'[r] # reqs[r]
              /\ CreateGuardFails(reqs[r].op, reqs[r].userId, reqs[r].row.id))
                => CreateRefused(r)
          \* the INSERT
          /\ (reqs[r].pc \in {"frInsert", "ivInsert"} /\ reqs'[r] # reqs[r])
                => ~CreateGuardFails(reqs[r].op, reqs[r].userId, reqs[r].row.id)]_vars

\* A friend request was refused because the request of user 3 to user 1 is
\* pending, after the invitation of Init was accepted.
C25_Witness ==
    /\ reqs[1].pc = "done"
    /\ reqs[1].op = "friendRequest"
    /\ reqs[1].code = 400
    /\ reqs[1].error = "Ya hay una solicitud pendiente"
    /\ \E q \in friendRequests : q.senderId = 3 /\ q.receiverId = 1
    /\ Len(games) = 1

\* The rows of the table that the request of slot r resolves.
ResolvedTable(q, requests, invitations) ==
    IF q.op \in {"friendAccept", "friendReject"} THEN requests ELSE invitations

\* C26: resolution consumes the row: after a successful accept or reject of
\* a friend request or of a game invitation no row with that id remains, and
\* every stored friend request and game invitation is PENDING.
C26_ResolutionConsumesRow ==
    /\ [](/\ \A q \in friendRequests : q.status = "PENDING"
          /\ \A i \in gameInvitations : i.status = "PENDING")
    /\ [][\A r \in Slots :
            (SocialSuccessStep(r) /\ reqs'[r].op \in ResolveOps) =>
               \A row \in ResolvedTable(reqs'[r], friendRequests', gameInvitations') :
                  row.id # reqs'[r].id]_vars

\* Invitation 1 was accepted and is gone while a later invitation is stored.
C26_Witness ==
    /\ reqs[1].pc = "done"
    /\ reqs[1].op = "accept"
    /\ reqs[1].code = 200
    /\ reqs[1].id = 1
    /\ \E i \in gameInvitations : i.id = 2
    /\ Len(games) = 1

\* The columns a move writes.
PlayFields(row) == <<row.boardState, row.playerTurn, row.status, row.winnerId>>

\* C27: every accepted move sends exactly one game_move notification, to
\* the other player and not to the mover, after the move has been persisted
\* and, when it ended the match, after the chat teardown: the match row read
\* when the notification is sent holds the move and is not the row from
\* before it.
C27_MoveNotifiesOpponentAfterPersist ==
    [][\A r \in Slots :
          MoveNotifyStep(r) =>
             LET q == reqs[r]
                 g == games[q.id]
             IN
             /\ reqs'[r].code = 200 =>
                   /\ Len(reqs'[r].notified) = 1
                   /\ reqs'[r].notified[1].event = "game_move"
                   /\ reqs'[r].notified[1].to = OpponentOf(q)
                   /\ reqs'[r].notified[1].to # q.userId
                   /\ reqs'[r].notified[1].data.gameId = q.id
             /\ g.boardState[q.position] = MySymbol(q.row, q.userId)
             /\ PlayFields(g) # PlayFields(q.row)
             /\ g.status \in {"FINISHED", "DRAW"} =>
                   /\ g.chatId = NULL
                   /\ q.row.chatId # NULL =>
                         /\ \A c \in chats : c.id # q.row.chatId
                         /\ \A m \in messages : m.chatId # q.row.chatId]_vars


\* Socket w was registered and neither 'close' nor 'error' has been
\* emitted on it.
Live(w) ==
    /\ ws[w].stage = "registered"
    /\ ~ws[w].errored
    /\ ws[w].readyState # CLOSED

\* C28: from its registration for user u until its 'close' or 'error', a
\* connection is a member of u's Set and of no other user's Set and stays
\* registered for u; a step that takes a connection out of a user's Set is
\* that connection's own 'close' or 'error', and the expiry of the token it
\* presented leaves the registry as it is.
C28_IdentityFixedAtRegistration ==
    /\ [](\A w \in Sockets : Live(w) =>
             /\ w \in Registered(ws[w].userId)
             /\ ws[w].userId = ws[w].token.id
             /\ \A u \in RtUsers \ {ws[w].userId} : w \notin Registered(u))
    /\ [][/\ \A w \in Sockets : ws[w].stage = "registered" =>
                /\ ws'[w].stage = "registered"
                /\ ws'[w].userId = ws[w].userId
          /\ \A w \in Sockets, u \in RtUsers :
                (w \in Registered(u) /\ w \notin Registered(u)') => RemoveRuns(w)
          /\ \A w \in Sockets : TokenExpires(w) =>
                userSockets' = userSockets /\ sets' = sets]_vars

\* C28 witness: a connection registered for user 1 is open and in user 1's
\* Set after its token has expired, while user 2 has a connection of its
\* own.
C28_Witness ==
    \E w1, w2 \in Sockets :
        /\ Live(w1) /\ ws[w1].userId = 1 /\ ws[w1].token.kind = "expired"
        /\ ws[w1].readyState = OPEN
        /\ Registered(1) = {w1}
        /\ Live(w2) /\ ws[w2].userId = 2 /\ Registered(2) = {w2}


\* The step in which the /ws handler registers socket w.
RegistersStep(w) == ws[w].stage = "verifying" /\ ws'[w].stage = "registered"

\* C29: a connection is registered at /ws only with a token that GET
\* /ws-token signed no more than two minutes earlier, never with a session
\* token, and authenticate does not accept a token signed by GET /ws-token.
C29_HandshakeCredentialSeparate ==
    [][/\ \A w \in Sockets : RegistersStep(w) =>
             /\ ws[w].token.origin = "ws-token"
             /\ ws[w].token.kind = "valid"
       /\ \A token \in HandshakeTokens : Me(1, token) => reqs'[1].code # 200]_vars


\* The step in which a move request that passed every check of the handler
\* runs its UPDATE of match g.
AcceptedMoveOn(g) ==
    /\ reqs[1].op = "move" /\ reqs[1].pc = "mvUpdate" /\ reqs[1].id = g
    /\ MoveUpdate(1)

\* C30: the board, turn, status and winnerId of a match change only in the
\* UPDATE of an accepted move on that match; chat reads, message posts,
\* invitation and friend operations, socket connects and closes and moves on
\* another match leave them as they are, and no match disappears.
C30_OnlyMoveChangesPlay ==
    [][/\ Len(games') >= Len(games)
       /\ \A g \in 1..Len(games) :
             PlayFields(games'[g]) # PlayFields(games[g]) => AcceptedMoveOn(g)]_vars

\* C30 witness: an invitation was accepted and X has moved on the new match
\* 3 while match 1 is as it started; a socket is registered and the request
\* served last is a chat read.
C30_Witness ==
    /\ Len(games) = 3
    /\ games[3].boardState[FrameCell] = "X"
    /\ games[1].boardState[FrameCell] = "-" /\ games[1].status = "ACTIVE"
    /\ games[2].status = "FINISHED"
    /\ \E w \in FrameSockets : ws[w].stage = "registered"
    /\ reqs[1].op = "chat" /\ reqs[1].pc = "done" /\ reqs[1].code = 200


\* The step in which a chat-read or post-message request of a player starts
\* in slot r on an ACTIVE match whose chatId is set.
StartsOnChannel(r) ==
    /\ Free(r) /\ reqs'[r] # reqs[r]
    /\ reqs'[r].op \in {"chat", "post"}
    /\ ~Free(r)'
    /\ reqs'[r].id \in 1..Len(games)
    /\ games[reqs'[r].id].status = "ACTIVE"
    /\ games[reqs'[r].id].chatId # NULL

\* C31: in every state at most one chat row created for a match exists, and
\* a chat read or message post that starts on an ACTIVE match whose chatId
\* is set goes on with that channel and is not about to create one.
C31_AtMostOneChannel ==
    /\ [](\A g \in 1..Len(games) : Cardinality(ChatsOf(g)) <= 1)
    /\ [][\A r \in Slots : StartsOnChannel(r) =>
             /\ reqs'[r].newChat = games[reqs'[r].id].chatId
             /\ reqs'[r].pc \notin {"crInsertChat", "pmInsertChat"}]_vars


\* The status and error of the reply just sent from slot 1.
Answer == <<reqs'[1].code, reqs'[1].error>>

\* User userId is neither playerX nor playerO of the existing match id.
Outsider(userId, id) ==
    /\ GameExists(id)
    /\ userId \notin {games[id].playerXId, games[id].playerOId}

\* An id no match has.
AbsentId == Len(games) + 1

\* C32: the reply to a get-match, move, chat-read or post-message request
\* of a user who is not a player of the match is the reply the same request
\* gets for an id no match has.
C32_OutsiderLearnsNothing ==
    [][\A userId \in Users, id \in GameIdInputs : Outsider(userId, id) =>
          /\ GameSelect(1, userId, id) =>
                Answer = GameError(userId, AbsentId)
          /\ ChatSelect(1, userId, id) =>
                Answer = ChatError(userId, AbsentId)
          /\ PostSelect(1, userId, id, ConcContent) =>
                Answer = PostError(userId, AbsentId, ConcContent)
          /\ \A n \in ChatCells :
                LET p == [type |-> "number", kind |-> "int", v |-> n] IN
                MoveSelect(1, userId, id, p) => Answer = MoveError(userId, AbsentId, p)]_vars


\* The number of cells of the board that hold the symbol.
CountOf(board, symbol) == Cardinality({c \in DOMAIN board : board[c] = symbol})

\* C33: with move requests handled one at a time, every board has exactly
\* the nine cells, each '-', 'X' or 'O'; X holds as many cells as O or one
\* more; and while the match is ACTIVE the turn is X exactly when the two
\* hold the same number.
C33_TurnAgreesWithBoard ==
    \A g \in 1..Len(games) :
        LET board == games[g].boardState
            x == CountOf(board, "X")
            o == CountOf(board, "O")
        IN
        /\ DOMAIN board = Cells /\ Cardinality(DOMAIN board) = 9
        /\ \A c \in DOMAIN board : board[c] \in {"-", "X", "O"}
        /\ x - o \in {0, 1}
        /\ games[g].playerTurn \in {"X", "O"}
        /\ games[g].status = "ACTIVE" => (games[g].playerTurn = "X" <=> x = o)

\* C33 witness: after seven accepted moves the match is ACTIVE, X holds
\* four cells and O three, and the turn is O.
C33_Witness ==
    /\ Len(games) = 1
    /\ games[1].status = "ACTIVE"
    /\ CountOf(games[1].boardState, "X") = 4
    /\ CountOf(games[1].boardState, "O") = 3
    /\ games[1].playerTurn = "O"

\* The symbols that have a completed line on the board.
LineSymbols(board) == {s \in {"X", "O"} : HasLine(board, s)}

\* C34: with move requests handled one at a time, an ACTIVE match has an
\* empty cell and no completed line; a FINISHED match has a completed line
\* of exactly one symbol and winnerId is the player of that symbol; a DRAW
\* match has no empty cell and no completed line.
C34_StatusAgreesWithBoard ==
    \A g \in 1..Len(games) :
        LET board == games[g].boardState IN
        /\ games[g].status \in {"ACTIVE", "FINISHED", "DRAW"}
        /\ games[g].status = "ACTIVE" =>
              ~BoardFull(board) /\ LineSymbols(board) = {}
        /\ games[g].status = "FINISHED" =>
              /\ Cardinality(LineSymbols(board)) = 1
              /\ "X" \in LineSymbols(board) => games[g].winnerId = games[g].playerXId
              /\ "O" \in LineSymbols(board) => games[g].winnerId = games[g].playerOId
        /\ games[g].status = "DRAW" =>
              BoardFull(board) /\ LineSymbols(board) = {}

\* C34 witness: O has completed a line and won a match that is not full.
C34_Witness ==
    /\ Len(games) = 1
    /\ games[1].status = "FINISHED"
    /\ LineSymbols(games[1].boardState) = {"O"}
    /\ games[1].winnerId = games[1].playerOId
    /\ ~BoardFull(games[1].boardState)


\* The cells of match g that hold a symbol: one for each accepted move.
Filled(g) == 9 - CountOf(games[g].boardState, "-")

\* The player whose turn it is on match g.
OnTurn(g) ==
    IF games[g].playerTurn = "X" THEN games[g].playerXId ELSE games[g].playerOId

\* Match g is FINISHED or DRAW.
Terminal(g) == games[g].status \in {"FINISHED", "DRAW"}

\* C35: every accepted move fills one more cell, a match with nine filled
\* cells is FINISHED or DRAW, and while a match is ACTIVE the player on turn
\* has a move the handler would accept; so when that player goes on sending
\* legal moves the match becomes terminal.
C35_EveryMatchEnds ==
    /\ [](\A g \in 1..Len(games) :
             /\ Filled(g) <= 9
             /\ Filled(g) = 9 => Terminal(g)
             /\ ~Terminal(g) =>
                   \E n \in Cells :
                      MoveError(OnTurn(g), g,
                                [type |-> "number", kind |-> "int", v |-> n])[1] = 200)
    /\ [][\A r \in Slots : UpdateStep(r) =>
             Filled(reqs[r].id)' = Filled(reqs[r].id) + 1]_vars
    /\ <>Terminal(1)

\* C35 witness: nine moves were accepted and the match is a DRAW.
C35_Witness ==
    /\ Len(games) = 1
    /\ Filled(1) = 9
    /\ games[1].status = "DRAW"
    /\ reqs[1].op = "move" /\ reqs[1].pc = "done" /\ reqs[1].code = 200


\* The unordered pair of users a friend request, invitation or friendship
\* row links.
PairOfRequest(q) == {q.senderId, q.receiverId}
PairOfFriendship(f) == {f.userId, f.friendId}

\* C36: with friend-request create, accept, reject and remove-friend
\* requests handled one at a time, no pair of users has both a friendship
\* row and a PENDING friend request between them.
C36_NoFriendshipWithPendingRequest ==
    \A f \in friendships, q \in friendRequests :
        q.status = "PENDING" => PairOfRequest(q) # PairOfFriendship(f)

\* C36 witness: user 1 has accepted the request of user 3; the two are
\* friends and no request between them is left.
C36_Witness ==
    /\ \E f \in friendships : PairOfFriendship(f) = {1, 3}
    /\ ~\E q \in friendRequests : PairOfRequest(q) = {1, 3}
    /\ reqs[1].op = "friendAccept" /\ reqs[1].pc = "done" /\ reqs[1].code = 200


\* C37: every match has two different players, and every stored friend
\* request, game invitation and friendship links two different users.
C37_RowsLinkDistinctUsers ==
    /\ \A g \in 1..Len(games) : games[g].playerXId # games[g].playerOId
    /\ \A q \in friendRequests : q.senderId # q.receiverId
    /\ \A i \in gameInvitations : i.senderId # i.receiverId
    /\ \A f \in friendships : f.userId # f.friendId

\* C37 witness: a match was created from an accepted invitation, a second
\* friendship from an accepted request, and requests to oneself were sent
\* and refused.
C37_Witness ==
    /\ Len(games) = 1
    /\ Cardinality(friendships) = 2
    /\ reqs[1].pc = "done" /\ reqs[1].code = 400
    /\ reqs[1].op \in {"friendRequest", "invite"}
    /\ reqs[1].error \in {"No puedes enviarte solicitud a ti mismo",
                          "No puedes invitarte a ti mismo"}


\* C38: every member of a user's Set was registered with a token carrying
\* that user's id, and a notifyUser call for user u writes to no connection
\* but those registered with a token carrying id u.
C38_NotificationsNeverCross ==
    /\ [](\A u \in DOMAIN userSockets : \A w \in sets[userSockets[u]] :
             /\ ws[w].stage = "registered"
             /\ ws[w].token.kind = "valid" /\ ws[w].token.id = u)
    /\ [][\A userId \in RtUsers, event \in EventInputs :
             NotifyCall(userId, event, [gameId |-> 1]) =>
                \A w \in Sockets : out'[w] # out[w] =>
                   /\ ws[w].stage = "registered"
                   /\ ws[w].token.id = userId
                   /\ ws[w].userId = userId]_vars

\* C38 witness: users 1 and 2 each have an open registered connection; the
\* one notifyUser call made has written to the connection of user 1 only.
C38_Witness ==
    \E w1, w2 \in Sockets :
        /\ ws[w1].stage = "registered" /\ ws[w1].token.id = 1
        /\ ws[w1].readyState = OPEN
        /\ ws[w2].stage = "registered" /\ ws[w2].token.id = 2
        /\ ws[w2].readyState = OPEN
        /\ calls = 1
        /\ Len(out[w1]) = 1 /\ Len(out[w2]) = 0

=============================================================================
